---- MODULE Spec2Model ----
(***************************************************************************)
(* A model of the MIDI relay engine of midi.js: the activity log, the      *)
(* port registry (open/close/toggle/scan/shutdown over the JZZ transport), *)
(* the receive path (decode, log, trigger matching) and the trigger        *)
(* actions (HTTP call, MIDI re-send), and trigger CRUD over the config     *)
(* store.                                                                  *)
(*                                                                         *)
(* Asynchronous functions are split at the awaits that wait for the        *)
(* transport or the network (JZZ(), openMidiIn, openMidiOut, close, fetch).*)
(* An await of an already settled value only defers to the microtask       *)
(* queue, where no transport, network or API event can come in between, so *)
(* the code up to the next real wait is part of the same step.             *)
(***************************************************************************)
EXTENDS Integers, Sequences, FiniteSets, TLC

VARIABLES
    MIDIRelaysLog,   \* global.MIDIRelaysLog
    appended,        \* history: every entry ever passed to addToLog, in order
    cfgTriggers,     \* config store, key 'triggers'
    MIDI_TRIGGERS,   \* global.MIDI_TRIGGERS, the in-memory active set
    disabledInputs,  \* config store, key 'disabledInputs'
    MIDI_INPUTS,     \* global.MIDI_INPUTS
    MIDI_OUTPUTS,    \* global.MIDI_OUTPUTS
    jzzEngine,       \* the JZZ engine session, or "null"
    openInputs,      \* Map portName -> input handle, in insertion order
    openOutputs,     \* Map portName -> output handle, in insertion order
    handles,         \* the transport: every handle it has handed out
    tasks,           \* asynchronous calls waiting at an await
    sent,            \* the transport: messages passed to output.send
    virtualInPort,   \* the virtual input widget, or "null"
    sink,            \* history: every event passed to global.sendMIDIBack
    rxHist,          \* history: every call of receiveMIDI
    execs,           \* history: every call of executeTrigger
    httpDone,        \* history: every fetch that has settled
    ncalls,          \* number of calls made so far (allocates task ids)
    lastOp           \* history: the last call made or continued, its result

vars == <<MIDIRelaysLog, appended, cfgTriggers, MIDI_TRIGGERS, disabledInputs,
          MIDI_INPUTS, MIDI_OUTPUTS, jzzEngine, openInputs, openOutputs,
          handles, tasks, sent, virtualInPort, sink, rxHist, execs, httpDone,
          ncalls, lastOp>>

trigVars == <<cfgTriggers, MIDI_TRIGGERS>>
histVars == <<rxHist, execs, httpDone>>

----------------------------------------------------------------------------
(* Bounds of the model *)

MaxAppends == 3      \* addToLog calls explored by SpecLog after its Init
MaxRx == 2           \* messages received in one behaviour
MaxCalls == 4        \* API calls (scan, open, close, toggle, send, shutdown)
MaxHandles == 3      \* handles the transport hands out in one behaviour
MaxCrud == 3         \* trigger CRUD calls in one behaviour
MaxToggles == 6      \* calls counted in a behaviour of toggles alone

(* Values of the program *)

LogLimit == 500      \* the length test of addToLog
Undef == -1          \* JavaScript undefined, for a numeric field
Star == -2           \* the wildcard '*', for a numeric field
UndefStr == "<undefined>"  \* JavaScript undefined, for a string field
NULL == "null"

Min(a, b) == IF a < b THEN a ELSE b

Range(s) == {s[i] : i \in 1..Len(s)}

\* the last n elements of s
LastN(s, n) == SubSeq(s, Len(s) - Min(n, Len(s)) + 1, Len(s))

----------------------------------------------------------------------------
(* Activity log *)

Directions == {"RX", "TX", "TRIGGER", "APP-ERR"}

\* the entry addToLog builds; the timestamp is the logical time of the append
logEntry(direction, port, command, data, now) ==
    [timestamp |-> now, direction |-> direction, port |-> port,
     command |-> command, data |-> data]

\* a plausible slip: the length test is taken before the push is counted
addToLog_offByOne(log, entry) ==
    IF Len(log) > LogLimit THEN Append(Tail(log), entry) ELSE Append(log, entry)

\* global.MIDIRelaysLog after addToLog: push, then shift when over the limit
addToLog(log, entry) ==
    LET pushed == Append(log, entry)
    IN IF Len(pushed) > LogLimit THEN Tail(pushed) ELSE pushed

\* a log record threaded through a call: the buffer and the ghost history
LogSt(log, app) == [log |-> log, app |-> app]

Log(ls, direction, port, command, data) ==
    LET e == logEntry(direction, port, command, data, Len(ls.app) + 1)
    IN [log |-> addToLog(ls.log, e), app |-> Append(ls.app, e)]

----------------------------------------------------------------------------
(* Codec: receiveMIDI's decoding of a byte message *)

RECURSIVE BitOr(_, _)
\* a | b on non-negative integers
BitOr(a, b) ==
    IF a = 0 THEN b
    ELSE IF b = 0 THEN a
    ELSE (IF a % 2 = 1 \/ b % 2 = 1 THEN 1 ELSE 0) + 2 * BitOr(a \div 2, b \div 2)

\* message[i], JavaScript indexing: undefined beyond the end
At(message, i) == IF i < Len(message) THEN message[i + 1] ELSE Undef

\* ToInt32 of a byte or undefined, as the bitwise operators apply it
ToInt(v) == IF v = Undef THEN 0 ELSE v

NoData == [channel |-> Undef, note |-> Undef, velocity |-> Undef,
           controller |-> Undef, value |-> Undef, raw |-> <<>>,
           message |-> <<>>, deviceid |-> Undef, commandformat |-> Undef,
           command |-> Undef]

parseMSC(message) ==
    [NoData EXCEPT !.deviceid = At(message, 2),
                   !.commandformat = At(message, 4),
                   !.command = At(message, 5),
                   !.raw = message]

\* a plausible slip: a Note On of velocity 0 is not turned into a Note Off
Decode_noRunningOff(message) ==
    LET statusByte == message[1]
        channel == statusByte % 16
        command == statusByte - channel
        base == [NoData EXCEPT !.channel = channel, !.raw = message]
    IN CASE command = 144 ->
              [type |-> "noteon",
               data |-> [base EXCEPT !.note = At(message, 1),
                                     !.velocity = At(message, 2)]]
         [] command = 128 ->
              [type |-> "noteoff",
               data |-> [base EXCEPT !.note = At(message, 1),
                                     !.velocity = At(message, 2)]]
         [] command = 176 ->
              [type |-> "cc",
               data |-> [base EXCEPT !.controller = At(message, 1),
                                     !.value = At(message, 2)]]
         [] command = 192 ->
              [type |-> "pc", data |-> [base EXCEPT !.value = At(message, 1)]]
         [] command = 208 ->
              [type |-> "pressure",
               data |-> [base EXCEPT !.value = At(message, 1)]]
         [] command = 224 ->
              [type |-> "pitchbend",
               data |-> [base EXCEPT !.value =
                            BitOr(ToInt(At(message, 1)),
                                  ToInt(At(message, 2)) * 128)]]
         [] command = 240 ->
              IF statusByte = 240
              THEN IF Len(message) >= 5 /\ message[2] = 127 /\ message[4] = 2
                   THEN [type |-> "msc", data |-> parseMSC(message)]
                   ELSE [type |-> "sysex",
                         data |-> [base EXCEPT !.message = message]]
              ELSE [type |-> "", data |-> base]
         [] OTHER -> [type |-> "unknown", data |-> base]

\* the midiType and midiData receiveMIDI computes for a non-empty message
\* (midiType "" when the switch leaves it empty)
Decode(message) ==
    LET statusByte == message[1]
        channel == statusByte % 16
        command == statusByte - channel
        base == [NoData EXCEPT !.channel = channel, !.raw = message]
    IN CASE command = 144 ->
              [type |-> IF At(message, 2) > 0 THEN "noteon" ELSE "noteoff",
               data |-> [base EXCEPT !.note = At(message, 1),
                                     !.velocity = At(message, 2)]]
         [] command = 128 ->
              [type |-> "noteoff",
               data |-> [base EXCEPT !.note = At(message, 1),
                                     !.velocity = At(message, 2)]]
         [] command = 176 ->
              [type |-> "cc",
               data |-> [base EXCEPT !.controller = At(message, 1),
                                     !.value = At(message, 2)]]
         [] command = 192 ->
              [type |-> "pc", data |-> [base EXCEPT !.value = At(message, 1)]]
         [] command = 208 ->
              [type |-> "pressure",
               data |-> [base EXCEPT !.value = At(message, 1)]]
         [] command = 224 ->
              [type |-> "pitchbend",
               data |-> [base EXCEPT !.value =
                            BitOr(ToInt(At(message, 1)),
                                  ToInt(At(message, 2)) * 128)]]
         [] command = 240 ->
              IF statusByte = 240
              THEN IF Len(message) >= 5 /\ message[2] = 127 /\ message[4] = 2
                   THEN [type |-> "msc", data |-> parseMSC(message)]
                   ELSE [type |-> "sysex",
                         data |-> [base EXCEPT !.message = message]]
              ELSE [type |-> "", data |-> base]
         [] OTHER -> [type |-> "unknown", data |-> base]

----------------------------------------------------------------------------
(* Triggers *)

\* String.prototype.toLowerCase on the command spellings of the model
toLowerCase(s) ==
    CASE s = "NoteOn" -> "noteon"
      [] s = "NOTEON" -> "noteon"
      [] s = "CC" -> "cc"
      [] OTHER -> s

\* String.prototype.toUpperCase (after trim) on the method spellings
toUpperCase(s) ==
    CASE s = "post" -> "POST"
      [] s = "get" -> "GET"
      [] s = " put " -> "PUT"
      [] s = "trace" -> "TRACE"
      [] OTHER -> s

\* a trigger with every field absent
NoTrigger ==
    [id |-> UndefStr, midicommand |-> UndefStr, midiport |-> UndefStr,
     channel |-> Undef, note |-> Undef, velocity |-> Undef,
     controller |-> Undef, value |-> Undef,
     actiontype |-> UndefStr, url |-> UndefStr, method |-> UndefStr,
     jsondata |-> UndefStr,
     outputport |-> UndefStr, outputcommand |-> UndefStr,
     outputchannel |-> Undef, outputnote |-> Undef, outputvelocity |-> Undef,
     outputcontroller |-> Undef, outputvalue |-> Undef]

\* a string is truthy unless it is undefined or empty
Truthy(s) == s # UndefStr /\ s # ""

\* parseInt of a numeric trigger field holding an integer
parseInt(v) == v

\* a plausible slip: the velocity criterion is compared without the test
\* for '*', and parseInt('*') is NaN, which equals no velocity
matchesTrigger_literalStar(trigger, portName, midiType, midiData) ==
    IF trigger.midicommand = UndefStr THEN "TypeError"
    ELSE IF toLowerCase(trigger.midicommand) # midiType THEN "false"
    ELSE IF Truthy(trigger.midiport) /\ trigger.midiport # "*"
            /\ trigger.midiport # portName THEN "false"
    ELSE IF trigger.channel # Undef /\ trigger.channel # Star
            /\ parseInt(trigger.channel) # midiData.channel THEN "false"
    ELSE IF midiType \in {"noteon", "noteoff"} /\ trigger.note # Undef
            /\ trigger.note # Star
            /\ parseInt(trigger.note) # midiData.note THEN "false"
    ELSE IF trigger.velocity # Undef
            /\ (trigger.velocity = Star
                  \/ parseInt(trigger.velocity) # midiData.velocity)
         THEN "false"
    ELSE IF midiType = "cc" /\ trigger.controller # Undef
            /\ trigger.controller # Star
            /\ parseInt(trigger.controller) # midiData.controller THEN "false"
    ELSE IF trigger.value # Undef /\ trigger.value # Star
            /\ parseInt(trigger.value) # midiData.value THEN "false"
    ELSE "true"

\* matchesTrigger: "true", "false", or "TypeError" when the call throws
\* (trigger.midicommand.toLowerCase() on an absent midicommand)
matchesTrigger(trigger, portName, midiType, midiData) ==
    IF trigger.midicommand = UndefStr THEN "TypeError"
    ELSE IF toLowerCase(trigger.midicommand) # midiType THEN "false"
    ELSE IF Truthy(trigger.midiport) /\ trigger.midiport # "*"
            /\ trigger.midiport # portName THEN "false"
    ELSE IF trigger.channel # Undef /\ trigger.channel # Star
            /\ parseInt(trigger.channel) # midiData.channel THEN "false"
    ELSE IF midiType \in {"noteon", "noteoff"} /\ trigger.note # Undef
            /\ trigger.note # Star
            /\ parseInt(trigger.note) # midiData.note THEN "false"
    ELSE IF trigger.velocity # Undef /\ trigger.velocity # Star
            /\ parseInt(trigger.velocity) # midiData.velocity THEN "false"
    ELSE IF midiType = "cc" /\ trigger.controller # Undef
            /\ trigger.controller # Star
            /\ parseInt(trigger.controller) # midiData.controller THEN "false"
    ELSE IF trigger.value # Undef /\ trigger.value # Star
            /\ parseInt(trigger.value) # midiData.value THEN "false"
    ELSE "true"

----------------------------------------------------------------------------
(* Codec: the encoding in sendMIDI *)

NaN == -3            \* the number NaN, as an element of a message
StrByte == -4        \* a string such as "144*", as an element of a message

\* base + v as JavaScript evaluates it for a number, undefined or '*'
Plus(base, v) ==
    IF v = Undef THEN NaN ELSE IF v = Star THEN StrByte ELSE base + v

\* a plausible slip: the default is used whatever the value
OrDefault_always(v, d) == d

\* v || d : the default replaces undefined and 0, not '*'
OrDefault(v, d) == IF v = Undef \/ v = 0 THEN d ELSE v

\* v & 0x7f and (v >> 7) & 0x7f; undefined and '*' convert to 0
Low7(v) == IF v < 0 THEN 0 ELSE v % 128
High7(v) == IF v < 0 THEN 0 ELSE (v \div 128) % 128

\* message.split(',').map((v) => parseInt(v.trim())) on the strings modelled
SysexParse(str) ==
    CASE str = "240, 1, 247" -> <<240, 1, 247>>
      [] str = "240,x,247" -> <<240, NaN, 247>>
      [] str = "" -> <<NaN>>
      [] OTHER -> <<NaN>>

\* a device id: a number, a string or undefined
DevNum(n) == [t |-> "num", v |-> n, s |-> ""]
DevStr(str) == [t |-> "str", v |-> 0, s |-> str]
DevUndef == [t |-> "undef", v |-> 0, s |-> ""]

\* parseInt(deviceId.substring(1)) for the group spellings modelled
GroupOf(str) ==
    CASE str = "g1" -> 1 [] str = "g3" -> 3 [] str = "g15" -> 15
      [] str = "g0" -> 0 [] str = "g16" -> 16
      [] OTHER -> NaN

\* parseInt(deviceId) of a string: only "50" and "200" here are numeric
DevParseInt(str) ==
    CASE str = "50" -> 50 [] str = "200" -> 200 [] OTHER -> NaN

parseStringDeviceId(str) ==
    IF str = "all" THEN 127
    ELSE IF str \in {"g1", "g3", "g15", "g0", "g16", "gx"}
            /\ GroupOf(str) >= 1 /\ GroupOf(str) <= 15
         THEN 112 + (GroupOf(str) - 1)
         ELSE 127

parseIntegerDeviceId(deviceId) ==
    IF deviceId >= 0 /\ deviceId <= 111 THEN deviceId ELSE 127

formatMap(name) ==
    CASE name = "lighting.general" -> 1
      [] name = "sound.general" -> 16
      [] name = "machinery.general" -> 32
      [] name = "video.general" -> 48
      [] name = "projection.general" -> 64
      [] name = "processcontrol.general" -> 80
      [] name = "pyro.general" -> 96
      [] OTHER -> 127

commandMap(name) ==
    CASE name = "go" -> 1 [] name = "stop" -> 2 [] name = "resume" -> 3
      [] name = "timedgo" -> 4 [] name = "load" -> 5 [] name = "set" -> 6
      [] name = "fire" -> 7 [] name = "alloff" -> 8 [] name = "restore" -> 9
      [] name = "reset" -> 10 [] name = "gooff" -> 11 [] name = "gojam" -> 16
      [] OTHER -> 1

\* str.split('').map((c) => c.charCodeAt(0)) on the cue strings modelled
stringToMSCData(str) ==
    CASE str = "1" -> <<49>>
      [] str = "12" -> <<49, 50>>
      [] str = "A" -> <<65>>
      [] OTHER -> <<>>

\* BuildMSC: the message, or <<>> when resolving the device id throws
BuildMSC(deviceId, commandFormat, command, cue, cueList, cuePath) ==
    LET num == CASE deviceId.t = "num" -> deviceId.v
                 [] deviceId.t = "str" -> DevParseInt(deviceId.s)
                 [] OTHER -> NaN
        throws == num = NaN /\ deviceId.t = "undef"
        deviceId_hex == IF num = NaN THEN parseStringDeviceId(deviceId.s)
                        ELSE parseIntegerDeviceId(num)
        head == <<240, 127, deviceId_hex, 2, formatMap(commandFormat),
                  commandMap(command)>>
        withCue == IF Truthy(cue) THEN head \o stringToMSCData(cue) ELSE head
        withList == IF Truthy(cueList)
                    THEN withCue \o <<0>> \o stringToMSCData(cueList)
                    ELSE withCue
        withPath == IF Truthy(cuePath)
                    THEN withList \o <<0>> \o stringToMSCData(cuePath)
                    ELSE withList
    IN IF throws THEN <<>> ELSE Append(withPath, 247)

\* an outbound request with every field absent
NoMidiObj ==
    [midiport |-> UndefStr, midicommand |-> UndefStr, channel |-> Undef,
     note |-> Undef, velocity |-> Undef, controller |-> Undef,
     value |-> Undef, message |-> UndefStr, deviceid |-> DevUndef,
     commandformat |-> UndefStr, command |-> UndefStr, cue |-> UndefStr,
     cuelist |-> UndefStr, cuepath |-> UndefStr]

\* the switch of sendMIDI: the message built, "invalid" for the default
\* case, "TypeError" when building it throws
Encode(midiObj) ==
    LET c == toLowerCase(midiObj.midicommand)
        ok(m) == [kind |-> "ok", message |-> m]
    IN IF midiObj.midicommand = UndefStr
       THEN [kind |-> "TypeError", message |-> <<>>]
       ELSE CASE c = "noteon" ->
                   ok(<<Plus(144, midiObj.channel), midiObj.note,
                        OrDefault(midiObj.velocity, 127)>>)
              [] c = "noteoff" ->
                   ok(<<Plus(128, midiObj.channel), midiObj.note,
                        OrDefault(midiObj.velocity, 0)>>)
              [] c = "cc" ->
                   ok(<<Plus(176, midiObj.channel), midiObj.controller,
                        midiObj.value>>)
              [] c = "pc" -> ok(<<Plus(192, midiObj.channel), midiObj.value>>)
              [] c = "pressure" ->
                   ok(<<Plus(208, midiObj.channel), midiObj.value>>)
              [] c = "pitchbend" ->
                   ok(<<Plus(224, midiObj.channel), Low7(midiObj.value),
                        High7(midiObj.value)>>)
              [] c = "sysex" ->
                   IF midiObj.message = UndefStr
                   THEN [kind |-> "TypeError", message |-> <<>>]
                   ELSE ok(SysexParse(midiObj.message))
              [] c = "msc" ->
                   ok(BuildMSC(midiObj.deviceid, midiObj.commandformat,
                               midiObj.command, midiObj.cue, midiObj.cuelist,
                               midiObj.cuepath))
              [] OTHER -> [kind |-> "invalid", message |-> <<>>]

----------------------------------------------------------------------------
(* The state a call works on, and the JavaScript Map *)

\* the engine state as a record, threaded through the operators of a call;
\* deferred holds the continuations queued as microtasks, threw whether the
\* synchronous code ended in an uncaught exception, failed whether an open
\* of the scan that went on was rejected, res the result reported
Ctx ==
    [ls |-> LogSt(MIDIRelaysLog, appended), tasks |-> tasks, n |-> ncalls,
     execs |-> execs, sent |-> sent, handles |-> handles,
     openInputs |-> openInputs, openOutputs |-> openOutputs,
     jzzEngine |-> jzzEngine, inputs |-> MIDI_INPUTS,
     outputs |-> MIDI_OUTPUTS, triggers |-> MIDI_TRIGGERS,
     virtualInPort |-> virtualInPort, sink |-> sink,
     deferred |-> <<>>, threw |-> FALSE, failed |-> FALSE, res |-> "none"]

Commit(st) ==
    /\ MIDIRelaysLog' = st.ls.log
    /\ appended' = st.ls.app
    /\ tasks' = st.tasks
    /\ ncalls' = st.n
    /\ execs' = st.execs
    /\ sent' = st.sent
    /\ handles' = st.handles
    /\ openInputs' = st.openInputs
    /\ openOutputs' = st.openOutputs
    /\ jzzEngine' = st.jzzEngine
    /\ MIDI_INPUTS' = st.inputs
    /\ MIDI_OUTPUTS' = st.outputs
    /\ MIDI_TRIGGERS' = st.triggers
    /\ virtualInPort' = st.virtualInPort
    /\ sink' = st.sink

\* a new task waiting at an await; its id is the number of the call
Spawn(st, task) ==
    [st EXCEPT !.n = st.n + 1,
               !.tasks = st.tasks \cup {[task EXCEPT !.id = st.n + 1]}]

Finish(st, task) == [st EXCEPT !.tasks = st.tasks \ {task}]

\* Map: a sequence of [name, h] in insertion order
MapIndex(m, name) ==
    IF \E i \in 1..Len(m) : m[i].name = name
    THEN CHOOSE i \in 1..Len(m) : m[i].name = name
    ELSE 0

MapHas(m, name) == MapIndex(m, name) # 0

\* Map.get: the handle, 0 for undefined
MapGet(m, name) == IF MapHas(m, name) THEN m[MapIndex(m, name)].h ELSE 0

\* Map.set: an existing key keeps its place
MapSet(m, name, h) ==
    IF MapHas(m, name)
    THEN [m EXCEPT ![MapIndex(m, name)].h = h]
    ELSE Append(m, [name |-> name, h |-> h])

MapDelete(m, name) ==
    LET k == MapIndex(m, name)
    IN IF k = 0 THEN m ELSE SubSeq(m, 1, k - 1) \o SubSeq(m, k + 1, Len(m))

\* the handle the transport hands out for a port; by names the caller that
\* asked for it, closeCalls counts the calls of close()
NewHandle(kind, name, connected, by) ==
    [kind |-> kind, name |-> name, connected |-> connected,
     closed |-> FALSE, closeCalls |-> 0, by |-> by]

----------------------------------------------------------------------------
(* sendMIDI *)

\* the callback of sendMIDI: the one runMIDITrigger_MIDI passes logs the
\* result, the caller's own callback receives it
callback(st, cb, result, midiObj) ==
    IF cb.kind = "trigger"
    THEN IF result = "midi-sent-successfully"
         THEN [st EXCEPT !.ls = Log(st.ls, "TRIGGER", "MIDI", cb.outputport,
                                    midiObj)]
         ELSE [st EXCEPT !.ls = Log(st.ls, "APP-ERR", "MIDI Trigger",
                                    cb.outputport, [error |-> result])]
    ELSE [st EXCEPT !.res = result]

\* a plausible slip: the default case of the switch reports the invalid
\* command and falls through to output.send with the empty message
sendMIDI_send_noReturn(st, h, midiObj, cb) ==
    LET enc == Encode(midiObj)
    IN CASE enc.kind = "TypeError" -> callback(st, cb, "error", midiObj)
         [] OTHER ->
              callback(
                [st EXCEPT !.sent = Append(st.sent,
                                      [h |-> h, message |-> enc.message,
                                       midiObj |-> midiObj]),
                           !.ls = Log(st.ls, "TX", midiObj.midiport,
                                      midiObj.midicommand, midiObj)],
                cb,
                IF enc.kind = "invalid" THEN "invalid-midi-command"
                ELSE "midi-sent-successfully",
                midiObj)

\* sendMIDI from its switch on: encode, output.send, log, callback
sendMIDI_send(st, h, midiObj, cb) ==
    LET enc == Encode(midiObj)
    IN CASE enc.kind = "TypeError" -> callback(st, cb, "error", midiObj)
         [] enc.kind = "invalid" ->
              callback(st, cb, "invalid-midi-command", midiObj)
         [] OTHER ->
              callback(
                [st EXCEPT !.sent = Append(st.sent,
                                      [h |-> h, message |-> enc.message,
                                       midiObj |-> midiObj]),
                           !.ls = Log(st.ls, "TX", midiObj.midiport,
                                      midiObj.midicommand, midiObj)],
                cb, "midi-sent-successfully", midiObj)

\* sendMIDI once initEngine has returned: the cached output, or openMidiOut
sendMIDI_output(st, midiObj, cb) ==
    LET h == MapGet(st.openOutputs, midiObj.midiport)
    IN IF h = 0
       THEN Spawn(st, [id |-> 0, kind |-> "sendMIDI", pc |-> "openOut",
                       midiObj |-> midiObj, cb |-> cb])
       ELSE sendMIDI_send(st, h, midiObj, cb)

\* the call of sendMIDI: await initEngine(), a wait for JZZ() when there is
\* no engine yet, a microtask otherwise
sendMIDI(st, midiObj, cb) ==
    IF st.jzzEngine = NULL
    THEN Spawn(st, [id |-> 0, kind |-> "sendMIDI", pc |-> "engine",
                    midiObj |-> midiObj, cb |-> cb])
    ELSE [st EXCEPT !.deferred =
              Append(st.deferred, [midiObj |-> midiObj, cb |-> cb])]

RECURSIVE RunDeferredFrom(_, _)
RunDeferredFrom(st, i) ==
    IF i > Len(st.deferred) THEN [st EXCEPT !.deferred = <<>>]
    ELSE RunDeferredFrom(
           sendMIDI_output(st, st.deferred[i].midiObj, st.deferred[i].cb),
           i + 1)

\* the microtasks queued by the synchronous code, in order
RunDeferred(st) == RunDeferredFrom(st, 1)

----------------------------------------------------------------------------
(* Trigger actions *)

VALID_MIDI_COMMANDS ==
    {"noteon", "noteoff", "cc", "pc", "pressure", "pitchbend", "sysex", "msc"}

allowedMethods == {"GET", "POST", "PUT", "PATCH", "DELETE"}

\* JSON.parse succeeds on these bodies of the model
JSONParses(str) == str \in {"{}", "{\"a\":1}"}

httpTimeout == 5000      \* config.get('httpTimeout') || 5000

\* a plausible slip: an explicit method is used whatever it is
httpMethod_anyExplicit(trigger) ==
    LET explicitMethod ==
            IF Truthy(trigger.method) THEN toUpperCase(trigger.method) ELSE ""
        inferred == IF Truthy(trigger.jsondata) THEN "POST" ELSE "GET"
    IN IF explicitMethod # "" THEN explicitMethod ELSE inferred

\* the method runMIDITrigger_HTTP settles on
httpMethod(trigger) ==
    LET explicitMethod ==
            IF Truthy(trigger.method) THEN toUpperCase(trigger.method) ELSE ""
        inferred == IF Truthy(trigger.jsondata) THEN "POST" ELSE "GET"
        method == IF explicitMethod # "" THEN explicitMethod ELSE inferred
    IN IF method \in allowedMethods THEN method ELSE inferred

\* 'HTTP ' + method
HttpPort(method) ==
    CASE method = "GET" -> "HTTP GET" [] method = "POST" -> "HTTP POST"
      [] method = "PUT" -> "HTTP PUT" [] method = "PATCH" -> "HTTP PATCH"
      [] OTHER -> "HTTP DELETE"

HttpPorts == {HttpPort(m) : m \in allowedMethods}

NoHeaders == "none"
JsonHeaders == "Content-Type: application/json"
NoBody == UndefStr

\* the fetchOptions of runMIDITrigger_HTTP, for a body that parses or is absent
httpOptions(trigger) ==
    LET method == httpMethod(trigger)
    IN IF Truthy(trigger.jsondata)
       THEN [method |-> method, headers |-> JsonHeaders,
             body |-> trigger.jsondata, timeoutMs |-> httpTimeout]
       ELSE IF method \in {"POST", "PUT", "PATCH"}
            THEN [method |-> method, headers |-> JsonHeaders, body |-> "{}",
                  timeoutMs |-> httpTimeout]
            ELSE [method |-> method, headers |-> NoHeaders, body |-> NoBody,
                  timeoutMs |-> httpTimeout]

\* a plausible slip: the body is sent without having been parsed first
runMIDITrigger_HTTP_unparsed(st, trigger, ev, idx) ==
    Spawn(st, [id |-> 0, kind |-> "fetch", ev |-> ev, idx |-> idx,
               url |-> trigger.url, options |-> httpOptions(trigger)])

\* runMIDITrigger_HTTP up to its await of fetch
runMIDITrigger_HTTP(st, trigger, ev, idx) ==
    IF Truthy(trigger.jsondata) /\ ~JSONParses(trigger.jsondata)
    THEN [st EXCEPT !.ls = Log(st.ls, "APP-ERR",
                               HttpPort(httpMethod(trigger)), trigger.url,
                               [error |-> "Invalid JSON"])]
    ELSE Spawn(st, [id |-> 0, kind |-> "fetch", ev |-> ev, idx |-> idx,
                    url |-> trigger.url, options |-> httpOptions(trigger)])

\* a || b on strings, a ?? b on numeric fields
OrStr(a, b) == IF Truthy(a) THEN a ELSE b
Coalesce(a, b) == IF a # Undef THEN a ELSE b

\* the request runMIDITrigger_MIDI builds
triggerMidiObj(trigger) ==
    [NoMidiObj EXCEPT
        !.midiport = trigger.outputport,
        !.midicommand = OrStr(trigger.outputcommand, trigger.midicommand),
        !.channel = Coalesce(trigger.outputchannel, trigger.channel),
        !.note = Coalesce(trigger.outputnote, trigger.note),
        !.velocity = Coalesce(trigger.outputvelocity, trigger.velocity),
        !.controller = Coalesce(trigger.outputcontroller, trigger.controller),
        !.value = Coalesce(trigger.outputvalue, trigger.value)]

runMIDITrigger_MIDI(st, trigger) ==
    sendMIDI(st, triggerMidiObj(trigger),
             [kind |-> "trigger", outputport |-> trigger.outputport])

\* a plausible slip: the HTTP call is completed inline, its result logged
\* before executeTrigger returns (a blocking request)
executeTrigger_blocking(st, trigger, ev, idx) ==
    LET st1 == [st EXCEPT !.execs = Append(st.execs,
                              [ev |-> ev, idx |-> idx, id |-> trigger.id])]
    IN CASE trigger.actiontype = "http" ->
              [st1 EXCEPT !.ls = Log(st1.ls, "TRIGGER",
                                     HttpPort(httpMethod(trigger)),
                                     trigger.url, [status |-> 200])]
         [] trigger.actiontype = "midi" -> runMIDITrigger_MIDI(st1, trigger)
         [] OTHER -> st1

\* a plausible slip: the switch has no default case of its own and an
\* unknown action type is run as an HTTP action
executeTrigger_defaultHttp(st, trigger, ev, idx) ==
    LET st1 == [st EXCEPT !.execs = Append(st.execs,
                              [ev |-> ev, idx |-> idx, id |-> trigger.id])]
    IN CASE trigger.actiontype = "midi" -> runMIDITrigger_MIDI(st1, trigger)
         [] OTHER -> runMIDITrigger_HTTP(st1, trigger, ev, idx)

\* executeTrigger up to the first wait of the action it starts; the default
\* case only writes a warning to the console
executeTrigger(st, trigger, ev, idx) ==
    LET st1 == [st EXCEPT !.execs = Append(st.execs,
                              [ev |-> ev, idx |-> idx, id |-> trigger.id])]
    IN CASE trigger.actiontype = "http" ->
              runMIDITrigger_HTTP(st1, trigger, ev, idx)
         [] trigger.actiontype = "midi" -> runMIDITrigger_MIDI(st1, trigger)
         [] OTHER -> st1

RECURSIVE processFrom(_, _, _, _, _, _)
\* the loop of processMIDITriggers from trigger i on; an exception thrown by
\* matchesTrigger leaves the loop and the function
processFrom(st, portName, midiType, midiData, ev, i) ==
    IF i > Len(st.triggers) THEN st
    ELSE LET m == matchesTrigger(st.triggers[i], portName, midiType, midiData)
         IN CASE m = "TypeError" -> [st EXCEPT !.threw = TRUE]
              [] m = "true" ->
                   processFrom(executeTrigger(st, st.triggers[i], ev, i),
                               portName, midiType, midiData, ev, i + 1)
              [] OTHER ->
                   processFrom(st, portName, midiType, midiData, ev, i + 1)

processMIDITriggers(st, portName, midiType, midiData, ev) ==
    processFrom(st, portName, midiType, midiData, ev, 1)

\* a plausible slip: whatever the switch has left in midiType is logged,
\* published and matched
receiveMIDI_unfiltered(st, portName, message, ev) ==
    IF Len(message) = 0 THEN st
    ELSE LET d == Decode(message)
         IN RunDeferred(
              processMIDITriggers(
                [st EXCEPT !.ls = Log(st.ls, "RX", portName, d.type, d.data),
                           !.sink = Append(st.sink,
                                           [port |-> portName,
                                            type |-> d.type,
                                            data |-> d.data])],
                portName, d.type, d.data, ev))

\* receiveMIDI, and the microtasks its synchronous code has queued
receiveMIDI(st, portName, message, ev) ==
    IF Len(message) = 0 THEN st
    ELSE LET d == Decode(message)
         IN IF d.type # "" /\ d.type # "unknown"
            THEN RunDeferred(
                   processMIDITriggers(
                     [st EXCEPT !.ls = Log(st.ls, "RX", portName, d.type,
                                           d.data),
                                !.sink = Append(st.sink,
                                                [port |-> portName,
                                                 type |-> d.type,
                                                 data |-> d.data])],
                     portName, d.type, d.data, ev))
            ELSE st

----------------------------------------------------------------------------
(* Validation of outbound requests *)

\* the parameters MIDI_LIMITS knows
LimitNames ==
    {"channel", "note", "velocity", "value", "controller", "program",
     "pitchbend"}

\* a plausible slip: the pitch bend is limited like a 7-bit value
MIDI_LIMITS_7bit(paramName) ==
    CASE paramName = "channel" -> [min |-> 0, max |-> 15]
      [] OTHER -> [min |-> 0, max |-> 127]

MIDI_LIMITS(paramName) ==
    CASE paramName = "channel" -> [min |-> 0, max |-> 15]
      [] paramName = "pitchbend" -> [min |-> 0, max |-> 16383]
      [] OTHER -> [min |-> 0, max |-> 127]

\* a JavaScript value given to the validators: a whole number, a number
\* with a fraction (v is the number truncated), a string, or undefined
Num(n) == [t |-> "num", v |-> n, s |-> ""]
Frac(n) == [t |-> "frac", v |-> n, s |-> ""]
Str(str) == [t |-> "str", v |-> 0, s |-> str]
Undefined == [t |-> "undef", v |-> 0, s |-> ""]

\* a field of a request or of a trigger, as such a value
Tagged(v) ==
    IF v = Undef THEN Undefined ELSE IF v = Star THEN Str("*") ELSE Num(v)

\* parseInt(value, 10): the leading digits of String(value), NaN without any
parseInt10(value) ==
    CASE value.t = "num" -> [nan |-> FALSE, v |-> value.v]
      [] value.t = "frac" -> [nan |-> FALSE, v |-> value.v]
      [] value.t = "str" /\ value.s = "12abc" -> [nan |-> FALSE, v |-> 12]
      [] OTHER -> [nan |-> TRUE, v |-> 0]

\* validateMIDIValue: valid with the value returned, or the kind of error
validateMIDIValue(paramName, value, allowWildcard) ==
    IF allowWildcard /\ value = Str("*")
    THEN [valid |-> TRUE, value |-> Str("*"), error |-> ""]
    ELSE IF paramName \notin LimitNames
    THEN [valid |-> FALSE, value |-> Undefined, error |-> "unknown parameter"]
    ELSE LET num == parseInt10(value)
             limits == MIDI_LIMITS(paramName)
         IN IF num.nan
            THEN [valid |-> FALSE, value |-> Undefined,
                  error |-> "must be a number"]
            ELSE IF num.v < limits.min \/ num.v > limits.max
            THEN [valid |-> FALSE, value |-> Undefined,
                  error |-> "out of range"]
            ELSE [valid |-> TRUE, value |-> Num(num.v), error |-> ""]

\* the errors of a field that is required for the commands given
RequiredField(command, commands, field, paramName, value) ==
    IF command \notin commands THEN {}
    ELSE IF value = Undef THEN {<<field, "required">>}
    ELSE IF ~validateMIDIValue(paramName, Tagged(value), FALSE).valid
         THEN {<<field, "invalid">>}
         ELSE {}

\* validateMIDIObject: the errors it collects
validateMIDIObject(midiObj) ==
    LET command == IF Truthy(midiObj.midicommand)
                   THEN toLowerCase(midiObj.midicommand) ELSE ""
        errors ==
            (IF ~Truthy(midiObj.midicommand)
             THEN {<<"midicommand", "required">>}
             ELSE IF command \notin VALID_MIDI_COMMANDS
                  THEN {<<"midicommand", "invalid">>} ELSE {})
            \cup (IF ~Truthy(midiObj.midiport)
                  THEN {<<"midiport", "required">>} ELSE {})
            \cup RequiredField(command,
                     {"noteon", "noteoff", "cc", "pc", "pressure",
                      "pitchbend"},
                     "channel", "channel", midiObj.channel)
            \cup RequiredField(command, {"noteon", "noteoff"},
                               "note", "note", midiObj.note)
            \cup (IF command \in {"noteon", "noteoff"}
                     /\ midiObj.velocity # Undef
                     /\ ~validateMIDIValue("velocity", Tagged(midiObj.velocity),
                                           FALSE).valid
                  THEN {<<"velocity", "invalid">>} ELSE {})
            \cup RequiredField(command, {"cc"}, "controller", "controller",
                               midiObj.controller)
            \cup RequiredField(command, {"cc", "pc", "pressure"},
                               "value", "value", midiObj.value)
            \cup RequiredField(command, {"pitchbend"}, "value", "pitchbend",
                               midiObj.value)
    IN [valid |-> errors = {}, errors |-> errors]

\* a plausible slip: an action type is required, any one is accepted
validateTriggerObject_anyAction(triggerObj) ==
    LET command == IF Truthy(triggerObj.midicommand)
                   THEN toLowerCase(triggerObj.midicommand) ELSE ""
        errors ==
            (IF ~Truthy(triggerObj.midicommand)
             THEN {<<"midicommand", "required">>}
             ELSE IF command \notin VALID_MIDI_COMMANDS
                  THEN {<<"midicommand", "invalid">>} ELSE {})
            \cup (IF command \in {"noteon", "noteoff", "cc", "pc", "pressure",
                                  "pitchbend"}
                     /\ triggerObj.channel # Undef
                     /\ triggerObj.channel # Star
                     /\ ~validateMIDIValue("channel",
                                           Tagged(triggerObj.channel),
                                           FALSE).valid
                  THEN {<<"channel", "invalid">>} ELSE {})
            \cup (IF command \in {"noteon", "noteoff"}
                     /\ triggerObj.note # Undef
                     /\ triggerObj.note # Star
                     /\ ~validateMIDIValue("note", Tagged(triggerObj.note),
                                           FALSE).valid
                  THEN {<<"note", "invalid">>} ELSE {})
            \cup (IF ~Truthy(triggerObj.actiontype)
                  THEN {<<"actiontype", "required">>} ELSE {})
            \cup (IF triggerObj.actiontype = "http" /\ ~Truthy(triggerObj.url)
                  THEN {<<"url", "required">>} ELSE {})
            \cup (IF triggerObj.actiontype = "midi"
                     /\ ~Truthy(triggerObj.outputport)
                  THEN {<<"outputport", "required">>} ELSE {})
    IN [valid |-> errors = {}, errors |-> errors]

\* validateTriggerObject: the errors it collects
validateTriggerObject(triggerObj) ==
    LET command == IF Truthy(triggerObj.midicommand)
                   THEN toLowerCase(triggerObj.midicommand) ELSE ""
        errors ==
            (IF ~Truthy(triggerObj.midicommand)
             THEN {<<"midicommand", "required">>}
             ELSE IF command \notin VALID_MIDI_COMMANDS
                  THEN {<<"midicommand", "invalid">>} ELSE {})
            \cup (IF command \in {"noteon", "noteoff", "cc", "pc", "pressure",
                                  "pitchbend"}
                     /\ triggerObj.channel # Undef
                     /\ triggerObj.channel # Star
                     /\ ~validateMIDIValue("channel",
                                           Tagged(triggerObj.channel),
                                           FALSE).valid
                  THEN {<<"channel", "invalid">>} ELSE {})
            \cup (IF command \in {"noteon", "noteoff"}
                     /\ triggerObj.note # Undef
                     /\ triggerObj.note # Star
                     /\ ~validateMIDIValue("note", Tagged(triggerObj.note),
                                           FALSE).valid
                  THEN {<<"note", "invalid">>} ELSE {})
            \cup (IF ~Truthy(triggerObj.actiontype)
                  THEN {<<"actiontype", "required">>}
                  ELSE IF triggerObj.actiontype \notin {"http", "midi"}
                       THEN {<<"actiontype", "invalid">>} ELSE {})
            \cup (IF triggerObj.actiontype = "http" /\ ~Truthy(triggerObj.url)
                  THEN {<<"url", "required">>} ELSE {})
            \cup (IF triggerObj.actiontype = "midi"
                     /\ ~Truthy(triggerObj.outputport)
                  THEN {<<"outputport", "required">>} ELSE {})
    IN [valid |-> errors = {}, errors |-> errors]

----------------------------------------------------------------------------
(* The inputs of the model *)

InputNames == {"A", "B"}
OutputNames == {"X"}

\* http, GET, any channel, note 60
T1 == [NoTrigger EXCEPT !.id = "trigger-1", !.midicommand = "noteon",
                        !.midiport = "*", !.channel = Star, !.note = 60,
                        !.actiontype = "http", !.url = "http://one"]
\* http, POST with a JSON body, port A, channel 0, note 60
T2 == [NoTrigger EXCEPT !.id = "trigger-2", !.midicommand = "NoteOn",
                        !.midiport = "A", !.channel = 0, !.note = 60,
                        !.actiontype = "http", !.url = "http://two",
                        !.jsondata = "{\"a\":1}"]
\* no midicommand
TBad == [NoTrigger EXCEPT !.id = "trigger-3", !.actiontype = "http",
                          !.url = "http://three"]
\* a midicommand that is not a MIDI command
TUnk == [NoTrigger EXCEPT !.id = "trigger-4", !.midicommand = "foo",
                          !.actiontype = "http", !.url = "http://four"]
\* midi action: a note on any channel is re-sent as a cc on output X
TMidi == [NoTrigger EXCEPT !.id = "trigger-5", !.midicommand = "noteon",
                           !.note = 60, !.actiontype = "midi",
                           !.outputport = "X", !.outputcommand = "cc",
                           !.outputchannel = 1, !.outputcontroller = 7,
                           !.outputvalue = 100]
\* midi action whose request falls back to the input fields: any channel
TMidiStar == [NoTrigger EXCEPT !.id = "trigger-8", !.midicommand = "noteon",
                               !.channel = Star, !.note = 60,
                               !.actiontype = "midi", !.outputport = "X"]
\* http with a body that is not JSON
TBadJson == [NoTrigger EXCEPT !.id = "trigger-6", !.midicommand = "noteon",
                              !.actiontype = "http", !.url = "http://six",
                              !.jsondata = "{bad"]
\* an action type that is neither http nor midi
TNoAct == [NoTrigger EXCEPT !.id = "trigger-7", !.midicommand = "noteon",
                            !.actiontype = "osc"]

\* the active sets the receive path is explored with
ActiveSets ==
    {<<>>, <<T1, T2>>, <<T1, TBad, T2>>, <<TUnk, T1>>, <<TMidi, TBadJson>>,
     <<TNoAct, T2>>, <<TMidiStar>>}

\* messages the transport delivers: note 60 on channel 0, note 61 on
\* channel 1, a status byte outside the table
RxMessages == {<<144, 60, 100>>, <<145, 61, 100>>, <<160, 1, 1>>}

\* what a fetch settles to: a response with a status, or a rejection
FetchOutcomes ==
    {[kind |-> "response", status |-> 200, name |-> "", code |-> ""],
     [kind |-> "response", status |-> 500, name |-> "", code |-> ""],
     [kind |-> "error", status |-> 0, name |-> "TypeError",
      code |-> "ECONNREFUSED"],
     [kind |-> "error", status |-> 0, name |-> "AbortError", code |-> ""]}

\* the outcomes explored where several calls are in flight at once
RelayOutcomes ==
    {o \in FetchOutcomes : o.status = 200 \/ o.code = "ECONNREFUSED"}

----------------------------------------------------------------------------
(* Steps of the receive path and of the trigger actions *)

LiveInputs ==
    {h \in 1..Len(handles) :
        handles[h].kind = "in" /\ handles[h].connected /\ ~handles[h].closed}

\* the transport calls the callback OpenPort connected to handle h
Receive(h, message) ==
    /\ Len(rxHist) < MaxRx
    /\ h \in LiveInputs
    /\ LET ev == Len(rxHist) + 1
           st == receiveMIDI(Ctx, handles[h].name, message, ev)
       IN /\ Commit(st)
          /\ rxHist' = Append(rxHist, [port |-> handles[h].name, h |-> h,
                                       message |-> message,
                                       threw |-> st.threw])
          /\ lastOp' = [op |-> "receiveMIDI",
                        res |-> IF st.threw THEN "TypeError" ELSE "returned"]
    /\ UNCHANGED <<cfgTriggers, disabledInputs, httpDone>>

\* the message of the catch block of runMIDITrigger_HTTP
fetchErrorMsg(outcome) ==
    CASE outcome.name = "AbortError" -> "Timeout after 5000ms"
      [] outcome.code = "ECONNREFUSED" -> "Connection refused"
      [] outcome.code = "ENOTFOUND" -> "Host not found"
      [] OTHER -> "error.message"

\* a plausible slip: a call that did not end in a 2xx response is logged
\* and made again
runMIDITrigger_HTTP_settled_retry(st, task, outcome) ==
    LET port == HttpPort(task.options.method)
    IN IF outcome.kind = "response" /\ outcome.status \in 200..299
       THEN [st EXCEPT !.ls = Log(st.ls, "TRIGGER", port, task.url,
                                  [status |-> outcome.status])]
       ELSE Spawn([st EXCEPT !.ls = Log(st.ls, "APP-ERR", port, task.url,
                                        [error |-> "retrying",
                                         status |-> "N/A"])],
                  [task EXCEPT !.id = 0])

\* runMIDITrigger_HTTP after its await of fetch (and of response.text())
runMIDITrigger_HTTP_settled(st, task, outcome) ==
    LET port == HttpPort(task.options.method)
    IN IF outcome.kind = "response"
       THEN IF outcome.status \in 200..299
            THEN [st EXCEPT !.ls = Log(st.ls, "TRIGGER", port, task.url,
                                       [status |-> outcome.status])]
            ELSE [st EXCEPT !.ls = Log(st.ls, "APP-ERR", port, task.url,
                                       [error |-> "Status Error",
                                        status |-> outcome.status])]
       ELSE [st EXCEPT !.ls = Log(st.ls, "APP-ERR", port, task.url,
                                  [error |-> fetchErrorMsg(outcome),
                                   status |-> "N/A"])]

\* the fetch of a trigger action settles
FetchSettles(task, outcome) ==
    /\ task \in tasks
    /\ task.kind = "fetch"
    /\ Commit(runMIDITrigger_HTTP_settled(Finish(Ctx, task), task, outcome))
    /\ httpDone' = Append(httpDone, [ev |-> task.ev, idx |-> task.idx,
                                     url |-> task.url, outcome |-> outcome])
    /\ lastOp' = [op |-> "fetch", res |-> outcome.kind]
    /\ UNCHANGED <<cfgTriggers, disabledInputs, rxHist>>

\* sendMIDI after its await of openMidiOut: the handle is cached and used,
\* or the rejection is caught and reported
sendMIDI_opened(st, task, ok) ==
    IF ok
    THEN LET h == Len(st.handles) + 1
             name == task.midiObj.midiport
         IN sendMIDI_send(
              [st EXCEPT !.handles = Append(st.handles,
                                            NewHandle("out", name, FALSE, "send")),
                         !.openOutputs = MapSet(st.openOutputs, name, h)],
              h, task.midiObj, task.cb)
    ELSE callback(st, task.cb, "error", task.midiObj)

SendMIDI_OutputOpened(task, ok) ==
    /\ task \in tasks
    /\ task.kind = "sendMIDI"
    /\ task.pc = "openOut"
    /\ ok => Len(handles) < MaxHandles /\ task.midiObj.midiport \in OutputNames
    /\ LET st == sendMIDI_opened(Finish(Ctx, task), task, ok)
       IN /\ Commit(st)
          /\ lastOp' = [op |-> "sendMIDI",
                        res |-> IF task.cb.kind = "api" THEN st.res
                                ELSE "logged"]
    /\ UNCHANGED <<cfgTriggers, disabledInputs, histVars>>

----------------------------------------------------------------------------
(* Specification of the receive path: input A is open, the engine is up,   *)
(* the active set is loaded                                                *)

InitBase ==
    /\ MIDIRelaysLog = <<>>
    /\ appended = <<>>
    /\ cfgTriggers = <<>>
    /\ MIDI_TRIGGERS = <<>>
    /\ disabledInputs = <<>>
    /\ MIDI_INPUTS = <<>>
    /\ MIDI_OUTPUTS = <<>>
    /\ jzzEngine = NULL
    /\ openInputs = <<>>
    /\ openOutputs = <<>>
    /\ handles = <<>>
    /\ tasks = {}
    /\ sent = <<>>
    /\ virtualInPort = NULL
    /\ sink = <<>>
    /\ rxHist = <<>>
    /\ execs = <<>>
    /\ httpDone = <<>>
    /\ ncalls = 0
    /\ lastOp = [op |-> "none", res |-> "none"]

Init ==
    /\ MIDIRelaysLog = <<>>
    /\ appended = <<>>
    /\ cfgTriggers \in ActiveSets
    /\ MIDI_TRIGGERS = cfgTriggers
    /\ disabledInputs = <<>>
    /\ MIDI_INPUTS = <<[name |-> "A", opened |-> TRUE]>>
    /\ MIDI_OUTPUTS = <<"X">>
    /\ jzzEngine = "up"
    /\ openInputs = <<[name |-> "A", h |-> 1]>>
    /\ openOutputs = <<>>
    /\ handles = <<NewHandle("in", "A", TRUE, "scan")>>
    /\ tasks = {}
    /\ sent = <<>>
    /\ virtualInPort = "midi-relay-hub"
    /\ sink = <<>>
    /\ rxHist = <<>>
    /\ execs = <<>>
    /\ httpDone = <<>>
    /\ ncalls = 0
    /\ lastOp = [op |-> "none", res |-> "none"]

Next ==
    \/ \E h \in 1..Len(handles), m \in RxMessages : Receive(h, m)
    \/ \E t \in tasks, o \in RelayOutcomes : FetchSettles(t, o)
    \/ \E t \in tasks, ok \in BOOLEAN : SendMIDI_OutputOpened(t, ok)

Spec == Init /\ [][Next]_vars

----------------------------------------------------------------------------
(* Properties of the receive path (specification Spec) *)

\* the event receiveMIDI decoded from the n-th message received
EventOf(n) == Decode(rxHist[n].message)

Dispatched(n) == EventOf(n).type \notin {"", "unknown"}

\* trigger i of the active set matches the n-th event
MatchesAt(n, i) ==
    /\ Dispatched(n)
    /\ MIDI_TRIGGERS[i].midicommand # UndefStr
    /\ matchesTrigger(MIDI_TRIGGERS[i], rxHist[n].port, EventOf(n).type,
                      EventOf(n).data) = "true"

\* executeTrigger was called for trigger i on the n-th event
Invoked(n, i) == \E k \in 1..Len(execs) : execs[k].ev = n /\ execs[k].idx = i

Settled(n, i, ok) ==
    \E k \in 1..Len(httpDone) :
        /\ httpDone[k].ev = n
        /\ httpDone[k].idx = i
        /\ ok = (httpDone[k].outcome.kind = "response"
                 /\ httpDone[k].outcome.status \in 200..299)

\* the entries ever logged with the given direction for a URL
Entries(direction, url) ==
    {k \in 1..Len(appended) :
        /\ appended[k].direction = direction
        /\ appended[k].port \in HttpPorts
        /\ appended[k].command = url}

SettledCalls(url, ok) ==
    {k \in 1..Len(httpDone) :
        /\ httpDone[k].url = url
        /\ ok = (httpDone[k].outcome.kind = "response"
                 /\ httpDone[k].outcome.status \in 200..299)}

IsHttp(t) == t.actiontype = "http"
BodyOk(t) == ~Truthy(t.jsondata) \/ JSONParses(t.jsondata)

\* C1: when an event matches two triggers of the active set and the HTTP
\* call of the first fails, the action of the second is still invoked, and
\* the log holds one APP-ERR entry for each failed call and one TRIGGER entry
\* for each successful one.
C1_SecondFiresAfterFailure ==
    \A n \in 1..Len(rxHist) :
        \A i \in 1..Len(MIDI_TRIGGERS), j \in 1..Len(MIDI_TRIGGERS) :
            ( /\ i < j
              /\ MatchesAt(n, i) /\ MatchesAt(n, j)
              /\ IsHttp(MIDI_TRIGGERS[i]) /\ BodyOk(MIDI_TRIGGERS[i])
              /\ IsHttp(MIDI_TRIGGERS[j]) /\ BodyOk(MIDI_TRIGGERS[j])
              /\ Settled(n, i, FALSE) )
            => /\ Invoked(n, j)
               /\ LET ui == MIDI_TRIGGERS[i].url
                      uj == MIDI_TRIGGERS[j].url
                  IN /\ Cardinality(Entries("APP-ERR", ui))
                          = Cardinality(SettledCalls(ui, FALSE))
                     /\ Cardinality(Entries("TRIGGER", uj))
                          = Cardinality(SettledCalls(uj, TRUE))

\* a trigger whose midicommand is missing or not a recognised command
Inert(t) ==
    \/ t.midicommand = UndefStr
    \/ toLowerCase(t.midicommand) \notin VALID_MIDI_COMMANDS

\* C2: a trigger whose midicommand is missing or unrecognised never
\* executes, does not keep the other triggers of the set from being
\* evaluated and fired, and does not abort the receive path.
C2_InertTriggerIsHarmless ==
    \A n \in 1..Len(rxHist) :
        /\ ~rxHist[n].threw
        /\ \A i \in 1..Len(MIDI_TRIGGERS) :
              /\ Inert(MIDI_TRIGGERS[i]) => ~Invoked(n, i)
              /\ (~Inert(MIDI_TRIGGERS[i]) /\ MatchesAt(n, i)) => Invoked(n, i)

\* the fetches in flight
Fetches(ts) == {t \in ts : t.kind = "fetch"}

\* C4: the receive path does not wait for trigger actions. A step of
\* receiveMIDI leaves every HTTP call it starts in flight, logs no outcome
\* of an HTTP call, and does not depend on the calls already in flight.
C4_ReceiveDoesNotWait ==
    [][Len(rxHist') > Len(rxHist) =>
         /\ Fetches(tasks) \subseteq Fetches(tasks')
         /\ httpDone' = httpDone
         /\ \A k \in (Len(execs) + 1)..Len(execs') :
               LET t == MIDI_TRIGGERS[execs'[k].idx]
               IN (IsHttp(t) /\ BodyOk(t)) =>
                     \E f \in Fetches(tasks') \ Fetches(tasks) :
                         f.ev = execs'[k].ev /\ f.idx = execs'[k].idx
         /\ \A k \in (Len(appended) + 1)..Len(appended') :
               appended'[k].port \in HttpPorts =>
                   /\ appended'[k].direction = "APP-ERR"
                   /\ appended'[k].data = [error |-> "Invalid JSON"]
    ]_vars

\* two events were received and matched, the second while the HTTP call of
\* the first was in flight; no call has settled
C4_Witness ==
    /\ Len(rxHist) = 2
    /\ httpDone = <<>>
    /\ \E f \in Fetches(tasks), g \in Fetches(tasks) : f.ev = 1 /\ g.ev = 2
    /\ \E k \in 1..Len(MIDIRelaysLog) :
          /\ MIDIRelaysLog[k].direction = "RX"
          /\ MIDIRelaysLog[k].timestamp > 1

\* a trigger whose actiontype is neither 'http' nor 'midi'
UnknownAction(t) == t.actiontype \notin {"http", "midi"}

\* the calls of executeTrigger a step makes
NewExecs == {k \in 1..Len(execs') : k > Len(execs)}

\* C13: executeTrigger on a trigger whose actiontype is neither 'http' nor
\* 'midi' does not throw, starts no HTTP request, sends no MIDI bytes and
\* appends no log entry. In every reachable state the call changes nothing
\* but the record of the call itself, and a receive that executes only such
\* triggers returns normally having appended its RX entry alone, started
\* no request and sent nothing.
C13_UnknownActionDoesNothing ==
    /\ [](\A i \in 1..Len(MIDI_TRIGGERS) :
            UnknownAction(MIDI_TRIGGERS[i]) =>
                LET st == executeTrigger(Ctx, MIDI_TRIGGERS[i], 0, i)
                IN /\ st.ls = Ctx.ls
                   /\ st.tasks = tasks
                   /\ st.sent = sent
                   /\ st.deferred = <<>>
                   /\ ~st.threw)
    /\ [][(NewExecs # {}
            /\ \A k \in NewExecs :
                  UnknownAction(MIDI_TRIGGERS[execs'[k].idx]))
          => /\ tasks' = tasks
             /\ sent' = sent
             /\ Len(appended') = Len(appended) + 1
             /\ appended'[Len(appended')].direction = "RX"
             /\ lastOp'.res = "returned"]_vars

\* a note on channel 1 has matched the trigger with action type 'osc' and
\* no other: executeTrigger was called once, for it
C13_Witness ==
    /\ Len(execs) = 1
    /\ UnknownAction(MIDI_TRIGGERS[execs[1].idx])
    /\ lastOp.op = "receiveMIDI"
    /\ Len(rxHist) = 1
    /\ rxHist[1].message = <<145, 61, 100>>

\* C14: every request that is encoded and passed to the transport has
\* passed validation, the request a MIDI trigger action builds included.
C14_SentRequestsAreValid ==
    \A k \in 1..Len(sent) : validateMIDIObject(sent[k].midiObj).valid

\* an http trigger that declares a JSON body that does not parse
BadBody(t) == IsHttp(t) /\ Truthy(t.jsondata) /\ ~JSONParses(t.jsondata)

\* C16: an HTTP action whose trigger declares a JSON body that does not
\* parse makes no network call and appends exactly one APP-ERR log entry:
\* in every reachable state the call starts no fetch and appends one
\* APP-ERR entry for the trigger's URL, no fetch for such a trigger is ever
\* in flight, and the log holds one such entry per execution.
C16_BadJsonMakesNoCall ==
    \A i \in 1..Len(MIDI_TRIGGERS) :
        BadBody(MIDI_TRIGGERS[i]) =>
            /\ LET st == runMIDITrigger_HTTP(Ctx, MIDI_TRIGGERS[i], 0, i)
                   n == Len(st.ls.app)
               IN /\ st.tasks = tasks
                  /\ n = Len(appended) + 1
                  /\ st.ls.app[n].direction = "APP-ERR"
                  /\ st.ls.app[n].command = MIDI_TRIGGERS[i].url
            /\ \A t \in tasks : t.kind = "fetch" => t.idx # i
            /\ Cardinality(Entries("APP-ERR", MIDI_TRIGGERS[i].url))
                   = Cardinality({k \in 1..Len(execs) : execs[k].idx = i})

\* the trigger with the body '{bad' has been executed for two events
C16_Witness ==
    /\ Len(MIDI_TRIGGERS) = 2
    /\ BadBody(MIDI_TRIGGERS[2])
    /\ Cardinality({k \in 1..Len(execs) : execs[k].idx = 2}) = 2
    /\ Cardinality(Entries("APP-ERR", MIDI_TRIGGERS[2].url)) = 2

----------------------------------------------------------------------------
(* Specification of the activity log alone: producers append in any order  *)
(* to a log that already holds some entries                                *)

otherThanLog == <<cfgTriggers, MIDI_TRIGGERS, disabledInputs, MIDI_INPUTS,
                  MIDI_OUTPUTS, jzzEngine, openInputs, openOutputs, handles,
                  tasks, sent, virtualInPort, sink, rxHist, execs, httpDone,
                  lastOp>>

\* the direction of the k-th entry of the initial logs
PrefillDirection(k) ==
    CASE k % 4 = 0 -> "RX" [] k % 4 = 1 -> "TX" [] k % 4 = 2 -> "TRIGGER"
      [] OTHER -> "APP-ERR"

\* the log after k appends to the empty log, k at most LogLimit
Prefill(k) ==
    [i \in 1..k |-> logEntry(PrefillDirection(i), "A", "noteon", NoData, i)]

PrefillLengths == {0, LogLimit - 2, LogLimit - 1, LogLimit}

InitLog ==
    /\ \E k \in PrefillLengths :
          /\ MIDIRelaysLog = Prefill(k)
          /\ appended = Prefill(k)
    /\ cfgTriggers = <<>>
    /\ MIDI_TRIGGERS = <<>>
    /\ disabledInputs = <<>>
    /\ MIDI_INPUTS = <<>>
    /\ MIDI_OUTPUTS = <<>>
    /\ jzzEngine = NULL
    /\ openInputs = <<>>
    /\ openOutputs = <<>>
    /\ handles = <<>>
    /\ tasks = {}
    /\ sent = <<>>
    /\ virtualInPort = NULL
    /\ sink = <<>>
    /\ rxHist = <<>>
    /\ execs = <<>>
    /\ httpDone = <<>>
    /\ ncalls = 0
    /\ lastOp = [op |-> "none", res |-> "none"]

\* one call of addToLog by a producer
AddToLog(direction) ==
    /\ ncalls < MaxAppends
    /\ ncalls' = ncalls + 1
    /\ LET ls == Log(LogSt(MIDIRelaysLog, appended), direction, "A", "noteon",
                     NoData)
       IN /\ MIDIRelaysLog' = ls.log
          /\ appended' = ls.app
    /\ UNCHANGED otherThanLog

NextLog == \E direction \in Directions : AddToLog(direction)

SpecLog == InitLog /\ [][NextLog]_vars

\* C3: the log holds at most 500 entries, and they are the most recently
\* appended entries in append order; once 501 entries have been appended
\* exactly 500 remain, the first appended is gone and the last is present.
C3_LogKeepsNewest500 ==
    /\ Len(MIDIRelaysLog) <= 500
    /\ MIDIRelaysLog = LastN(appended, 500)
    /\ Len(appended) >= 501 =>
          /\ Len(MIDIRelaysLog) = 500
          /\ appended[1] \notin Range(MIDIRelaysLog)
          /\ MIDIRelaysLog[500] = appended[Len(appended)]

\* 501 entries were appended, the last two by different producers
C3_Witness ==
    /\ Len(appended) = 501
    /\ appended[501].direction # appended[500].direction
    /\ Len(MIDIRelaysLog) = 500

----------------------------------------------------------------------------
(* Trigger CRUD over the config store *)

\* config.get('triggers') || [], then global.MIDI_TRIGGERS = triggers
loadMIDITriggers(cfg) == cfg

\* the results of 'trigger-' + uuidv4() the model draws from: Math.random
\* may repeat an id, also one that is already stored
TriggerIds == {"trigger-1", "trigger-9"}

\* the stored list, the active set and the value returned
CrudResult(cfg, mem, res) == [cfg |-> cfg, mem |-> mem, res |-> res]

addTrigger(cfg, mem, triggerObj, id) ==
    LET triggers == Append(cfg, [triggerObj EXCEPT !.id = id])
    IN CrudResult(triggers, triggers, id)

\* triggers.findIndex((t) => t.id === id), 0 for -1
findIndex(triggers, id) ==
    IF \E k \in 1..Len(triggers) : triggers[k].id = id
    THEN CHOOSE k \in 1..Len(triggers) :
            /\ triggers[k].id = id
            /\ \A j \in 1..(k - 1) : triggers[j].id # id
    ELSE 0

\* a plausible slip: the stored list is written, the active set is not
\* replaced
updateTrigger_storeOnly(cfg, mem, triggerObj) ==
    LET index == findIndex(cfg, triggerObj.id)
    IN IF index # 0
       THEN CrudResult([cfg EXCEPT ![index] = triggerObj], mem, "true")
       ELSE CrudResult(cfg, mem, "false")

updateTrigger(cfg, mem, triggerObj) ==
    LET index == findIndex(cfg, triggerObj.id)
        triggers == [cfg EXCEPT ![index] = triggerObj]
    IN IF index # 0
       THEN CrudResult(triggers, triggers, "true")
       ELSE CrudResult(cfg, mem, "false")

KeepOthers(triggers, id) ==
    LET keep(t) == t.id # id IN SelectSeq(triggers, keep)

deleteTrigger(cfg, mem, triggerId) ==
    LET filtered == KeepOthers(cfg, triggerId)
    IN IF Len(filtered) # Len(cfg)
       THEN CrudResult(filtered, filtered, "true")
       ELSE CrudResult(cfg, mem, "false")

\* the trigger bodies and ids the calls are made with
NewTriggers == {T1, TMidi}
CallIds == TriggerIds \cup {"trigger-2", "trigger-0"}

otherThanTriggers == <<MIDIRelaysLog, appended, disabledInputs, MIDI_INPUTS,
                       MIDI_OUTPUTS, jzzEngine, openInputs, openOutputs,
                       handles, tasks, sent, virtualInPort, sink, rxHist,
                       execs, httpDone>>

CrudStep(op, arg, r) ==
    /\ ncalls < MaxCrud
    /\ ncalls' = ncalls + 1
    /\ cfgTriggers' = r.cfg
    /\ MIDI_TRIGGERS' = r.mem
    /\ lastOp' = [op |-> op, res |-> r.res, arg |-> arg]
    /\ UNCHANGED otherThanTriggers

AddTrigger(triggerObj, id) ==
    CrudStep("addTrigger", triggerObj,
             addTrigger(cfgTriggers, MIDI_TRIGGERS, triggerObj, id))

UpdateTrigger(triggerObj) ==
    CrudStep("updateTrigger", triggerObj,
             updateTrigger(cfgTriggers, MIDI_TRIGGERS, triggerObj))

DeleteTrigger(triggerId) ==
    CrudStep("deleteTrigger", [NoTrigger EXCEPT !.id = triggerId],
             deleteTrigger(cfgTriggers, MIDI_TRIGGERS, triggerId))

LoadMIDITriggers ==
    CrudStep("loadMIDITriggers", NoTrigger,
             CrudResult(cfgTriggers, loadMIDITriggers(cfgTriggers), "none"))

\* the lists the store holds when the process starts
StoredAtStart == {<<>>, <<T1>>, <<T1, T2>>}

\* the process has started: the store holds what an earlier run left,
\* the active set is still empty
InitTriggers ==
    /\ cfgTriggers \in StoredAtStart
    /\ MIDI_TRIGGERS = <<>>
    /\ MIDIRelaysLog = <<>>
    /\ appended = <<>>
    /\ disabledInputs = <<>>
    /\ MIDI_INPUTS = <<>>
    /\ MIDI_OUTPUTS = <<>>
    /\ jzzEngine = NULL
    /\ openInputs = <<>>
    /\ openOutputs = <<>>
    /\ handles = <<>>
    /\ tasks = {}
    /\ sent = <<>>
    /\ virtualInPort = NULL
    /\ sink = <<>>
    /\ rxHist = <<>>
    /\ execs = <<>>
    /\ httpDone = <<>>
    /\ ncalls = 0
    /\ lastOp = [op |-> "none", res |-> "none", arg |-> NoTrigger]

NextTriggers ==
    \/ \E t \in NewTriggers, id \in TriggerIds : AddTrigger(t, id)
    \/ \E t \in NewTriggers, id \in CallIds :
          UpdateTrigger([t EXCEPT !.id = id])
    \/ \E id \in CallIds : DeleteTrigger(id)
    \/ LoadMIDITriggers

SpecTriggers == InitTriggers /\ [][NextTriggers]_vars

\* C10 as claimed: after every addTrigger, updateTrigger or deleteTrigger
\* call the in-memory active set equals the persisted trigger list.
C10_EqualAfterEveryCall ==
    lastOp.op \in {"addTrigger", "updateTrigger", "deleteTrigger"}
        => MIDI_TRIGGERS = cfgTriggers

HasId(triggers, id) == \E k \in 1..Len(triggers) : triggers[k].id = id

\* the step is a call of op that returned res
Called(op, res) == lastOp'.op = op /\ lastOp'.res = res

\* C10 as amended: after every addTrigger call, and after every
\* updateTrigger or deleteTrigger call that finds the id in the persisted
\* list, the active set equals the persisted list, replaced in the same
\* step: add appends the trigger under its new id, update replaces the first
\* trigger with the id, delete removes the triggers with the id. A call
\* that does not find the id changes neither list.
C10_CrudKeepsActiveSetEqual ==
    /\ [](( \/ lastOp.op = "addTrigger"
            \/ (lastOp.op \in {"updateTrigger", "deleteTrigger"}
                /\ lastOp.res = "true") )
          => MIDI_TRIGGERS = cfgTriggers)
    /\ [][ /\ lastOp'.op = "addTrigger" =>
                /\ cfgTriggers' = cfgTriggers
                       \o <<[lastOp'.arg EXCEPT !.id = lastOp'.res]>>
                /\ MIDI_TRIGGERS' = cfgTriggers'
           /\ Called("updateTrigger", "true") =>
                /\ \E k \in 1..Len(cfgTriggers) :
                      /\ cfgTriggers[k].id = lastOp'.arg.id
                      /\ \A j \in 1..(k - 1) :
                            cfgTriggers[j].id # lastOp'.arg.id
                      /\ cfgTriggers' = [cfgTriggers EXCEPT ![k] = lastOp'.arg]
                /\ MIDI_TRIGGERS' = cfgTriggers'
           /\ Called("deleteTrigger", "true") =>
                /\ HasId(cfgTriggers, lastOp'.arg.id)
                /\ ~HasId(cfgTriggers', lastOp'.arg.id)
                /\ \E keep \in SUBSET (1..Len(cfgTriggers)) :
                      /\ keep = {k \in 1..Len(cfgTriggers) :
                                    cfgTriggers[k].id # lastOp'.arg.id}
                      /\ Len(cfgTriggers') = Cardinality(keep)
                      /\ \A k \in keep :
                            cfgTriggers'[Cardinality({j \in keep : j <= k})]
                                = cfgTriggers[k]
                /\ MIDI_TRIGGERS' = cfgTriggers'
           /\ (Called("updateTrigger", "false")
               \/ Called("deleteTrigger", "false")) =>
                /\ ~HasId(cfgTriggers, lastOp'.arg.id)
                /\ UNCHANGED trigVars
         ]_vars

\* an add, then an update that found its trigger: two triggers are stored,
\* the second was replaced by the update, and the active set is the same
C10_Witness ==
    /\ lastOp.op = "updateTrigger"
    /\ lastOp.res = "true"
    /\ Len(cfgTriggers) = 2
    /\ cfgTriggers[2] = lastOp.arg
    /\ cfgTriggers[2].id = "trigger-9"
    /\ MIDI_TRIGGERS = cfgTriggers

\* C11: after any sequence of addTrigger, updateTrigger and deleteTrigger
\* calls no two triggers of the persisted list share an id.
C11_TriggerIdsUnique ==
    \A i \in 1..Len(cfgTriggers), j \in 1..Len(cfgTriggers) :
        i # j => cfgTriggers[i].id # cfgTriggers[j].id

----------------------------------------------------------------------------
(* Port registry: OpenPort, ClosePort, toggleInputDisabled, GetPorts,      *)
(* closeMIDI                                                               *)

\* what engine.info() lists: the transport may list a port name twice
TransportInfos ==
    {[inputs |-> <<"A", "B", "A">>, outputs |-> <<"X", "X">>]}

\* config.get('disabledInputs').includes(inputId)
isInputDisabled(inputId) == inputId \in Range(disabledInputs)

\* port.opened = v on the entry global.MIDI_INPUTS.find returns
SetOpened(inputs, name, v) ==
    IF \E k \in 1..Len(inputs) : inputs[k].name = name
    THEN LET k == CHOOSE k \in 1..Len(inputs) :
                     /\ inputs[k].name = name
                     /\ \A j \in 1..(k - 1) : inputs[j].name # name
         IN [inputs EXCEPT ![k].opened = v]
    ELSE inputs

\* OpenPort up to its first wait: JZZ() when there is no engine yet,
\* engine.openMidiIn otherwise. res tells the caller whether it returned
OpenPort(st, portName, by, parent) ==
    IF MapHas(st.openInputs, portName)
    THEN [st EXCEPT !.res = "returned"]
    ELSE [Spawn(st, [id |-> 0, kind |-> "OpenPort",
                     pc |-> IF st.jzzEngine = NULL THEN "engine"
                            ELSE "openIn",
                     name |-> portName, by |-> by, parent |-> parent])
            EXCEPT !.res = "pending"]

RECURSIVE scanLoop(_, _, _)
\* the loop of GetPorts over portsToOpen and what follows it; scan is the
\* task of the GetPorts call, todo the ports left
scanLoop(st, scan, todo) ==
    IF todo = <<>>
    THEN [st EXCEPT !.triggers = loadMIDITriggers(cfgTriggers),
                    !.res = "done"]
    ELSE LET st1 == OpenPort(st, Head(todo), "scan", scan.id)
         IN IF st1.res = "returned"
            THEN scanLoop(st1, scan, Tail(todo))
            ELSE [st1 EXCEPT !.tasks = st1.tasks \cup
                                 {[scan EXCEPT !.pc = "open",
                                               !.todo = Tail(todo)]}]

RECURSIVE listInputs(_, _, _)
\* the forEach over engine.info().inputs: one entry per name
listInputs(ports, acc, open) ==
    IF ports = <<>> THEN acc
    ELSE IF \E k \in 1..Len(acc) : acc[k].name = Head(ports)
         THEN listInputs(Tail(ports), acc, open)
         ELSE listInputs(Tail(ports),
                         Append(acc, [name |-> Head(ports),
                                      opened |-> MapHas(open, Head(ports))]),
                         open)

\* GetPorts once initEngine has returned: the ports are pushed onto the
\* lists as they are by then, then portsToOpen and the loop
scanList(st, scan, info) ==
    LET inputs == listInputs(info.inputs, st.inputs, st.openInputs)
        wanted(port) == ~isInputDisabled(port.name) /\ ~port.opened
        portsToOpen == SelectSeq(inputs, wanted)
    IN scanLoop([st EXCEPT !.outputs = st.outputs \o info.outputs,
                          !.inputs = inputs],
                scan,
                [k \in 1..Len(portsToOpen) |-> portsToOpen[k].name])

\* the call of GetPorts: the lists are emptied, then await initEngine()
GetPorts(st, info) ==
    LET scan == [id |-> st.n + 1, kind |-> "GetPorts", pc |-> "engine",
                 todo |-> <<>>, failed |-> FALSE]
        st1 == [st EXCEPT !.n = st.n + 1, !.outputs = <<>>, !.inputs = <<>>]
    IN IF st.jzzEngine = NULL
       THEN [st1 EXCEPT !.tasks = st1.tasks \cup {scan}, !.res = "pending"]
       ELSE scanList(st1, scan, info)

\* the caller of a finished OpenPort goes on: GetPorts with its loop
resumeParent(st, task, failed) ==
    IF task.parent = 0 THEN [st EXCEPT !.res = "returned"]
    ELSE LET scan == CHOOSE p \in st.tasks : p.id = task.parent
             scan1 == [scan EXCEPT !.failed = scan.failed \/ failed]
         IN [scanLoop(Finish(st, scan), scan1, scan1.todo)
               EXCEPT !.failed = scan1.failed]

\* OpenPort after its await of engine.openMidiIn
OpenPort_opened(st, task, ok) ==
    IF ok
    THEN LET h == Len(st.handles) + 1
         IN [st EXCEPT
               !.handles = Append(st.handles,
                                  NewHandle("in", task.name, TRUE, task.by)),
               !.openInputs = MapSet(st.openInputs, task.name, h),
               !.inputs = SetOpened(st.inputs, task.name, TRUE)]
    ELSE st

\* ClosePort after its await of input.close(); an iteration of closeMIDI
\* over the map that is past the deleted entry moves up with the rest
ClosePort_closed(st, task, ok) ==
    LET k == MapIndex(st.openInputs, task.name)
        moved(t) == IF t.kind = "closeMIDI" /\ t.pc = "inputs" /\ k # 0
                       /\ t.idx >= k
                    THEN [t EXCEPT !.idx = t.idx - 1] ELSE t
    IN IF ok
       THEN [st EXCEPT !.handles[task.h].closed = TRUE,
                       !.openInputs = MapDelete(st.openInputs, task.name),
                       !.inputs = SetOpened(st.inputs, task.name, FALSE),
                       !.tasks = {moved(t) : t \in st.tasks}]
       ELSE st

\* ClosePort up to its await of input.close()
ClosePort(st, portName) ==
    LET h == MapGet(st.openInputs, portName)
    IN IF h = 0 THEN [st EXCEPT !.res = "returned"]
       ELSE [Spawn([st EXCEPT !.handles[h].closeCalls = @ + 1],
                   [id |-> 0, kind |-> "ClosePort", name |-> portName,
                    h |-> h])
               EXCEPT !.res = "pending"]

\* the list toggleInputDisabled writes back to the config store
toggledList(list, inputId) ==
    IF inputId \in Range(list)
    THEN LET index == CHOOSE k \in 1..Len(list) :
                         /\ list[k] = inputId
                         /\ \A j \in 1..(k - 1) : list[j] # inputId
         IN SubSeq(list, 1, index - 1) \o SubSeq(list, index + 1, Len(list))
    ELSE Append(list, inputId)

\* the port call toggleInputDisabled makes and does not wait for
toggleInputDisabled(st, inputId) ==
    IF isInputDisabled(inputId)
    THEN OpenPort(st, inputId, "toggle", 0)
    ELSE ClosePort(st, inputId)

RECURSIVE closeMIDI_loop(_, _)
\* closeMIDI from the position of task c on: the loop over openInputs and
\* the clear, the loop over openOutputs and the clear, the engine
closeMIDI_loop(st, c) ==
    CASE c.pc = "inputs" ->
           IF c.idx < Len(st.openInputs)
           THEN LET h == st.openInputs[c.idx + 1].h
                IN [st EXCEPT !.handles[h].closeCalls = @ + 1,
                              !.tasks = st.tasks \cup
                                  {[c EXCEPT !.idx = c.idx + 1, !.h = h]},
                              !.res = "pending"]
           ELSE closeMIDI_loop([st EXCEPT !.openInputs = <<>>],
                               [c EXCEPT !.pc = "outputs", !.idx = 0])
      [] c.pc = "outputs" ->
           IF c.idx < Len(st.openOutputs)
           THEN LET h == st.openOutputs[c.idx + 1].h
                IN [st EXCEPT !.handles[h].closeCalls = @ + 1,
                              !.tasks = st.tasks \cup
                                  {[c EXCEPT !.idx = c.idx + 1, !.h = h]},
                              !.res = "pending"]
           ELSE LET st1 == [st EXCEPT !.openOutputs = <<>>]
                IN IF st1.jzzEngine # NULL
                   THEN [st1 EXCEPT !.tasks = st1.tasks \cup
                                        {[c EXCEPT !.pc = "engine", !.h = 0]},
                                    !.res = "pending"]
                   ELSE [st1 EXCEPT !.res = "done"]
      [] OTHER -> [st EXCEPT !.jzzEngine = NULL, !.res = "done"]

\* the handles a map tracks
Tracked(m) == {m[i].h : i \in 1..Len(m)}

\* the call of closeMIDI
closeMIDI(st) ==
    closeMIDI_loop([st EXCEPT !.n = st.n + 1],
                   [id |-> st.n + 1, kind |-> "closeMIDI", pc |-> "inputs",
                    idx |-> 0, h |-> 0,
                    tracked |-> Tracked(st.openInputs)
                                  \cup Tracked(st.openOutputs)])

\* closeMIDI after an await of close(): a rejection is ignored
closeMIDI_closed(st, task, ok) ==
    IF task.pc = "engine" THEN closeMIDI_loop(st, task)
    ELSE closeMIDI_loop(
           IF ok THEN [st EXCEPT !.handles[task.h].closed = TRUE] ELSE st,
           task)

----------------------------------------------------------------------------
(* Steps of the port registry *)

\* the state of the engine after a call or a continuation of one
PortStep(op, st, tracked) ==
    /\ Commit(st)
    /\ lastOp' = [op |-> op, res |-> st.res, failed |-> st.failed,
                  tracked |-> tracked]
    /\ UNCHANGED <<cfgTriggers, histVars>>

\* the call itself is counted
Call == [Ctx EXCEPT !.n = ncalls + 1]

Scan(info) ==
    /\ ncalls < MaxCalls
    /\ PortStep("GetPorts", GetPorts(Ctx, info), {})
    /\ UNCHANGED disabledInputs

OpenPortCall(portName) ==
    /\ ncalls < MaxCalls
    /\ PortStep("OpenPort", OpenPort(Call, portName, "api", 0), {})
    /\ UNCHANGED disabledInputs

ClosePortCall(portName) ==
    /\ ncalls < MaxCalls
    /\ PortStep("ClosePort", ClosePort(Call, portName), {})
    /\ UNCHANGED disabledInputs

\* toggleInputDisabled, callable while fewer than limit calls were made
Toggle(inputId, limit) ==
    /\ ncalls < limit
    /\ PortStep("toggleInputDisabled", toggleInputDisabled(Call, inputId), {})
    /\ disabledInputs' = toggledList(disabledInputs, inputId)

\* the requests sendMIDI is called with
SendObjs ==
    {[NoMidiObj EXCEPT !.midiport = "X", !.midicommand = "noteon",
                       !.channel = 0, !.note = 60, !.velocity = 100]}

SendMIDI(midiObj) ==
    /\ ncalls < MaxCalls
    /\ PortStep("sendMIDI",
                RunDeferred(sendMIDI(Call, midiObj, [kind |-> "api"])), {})
    /\ UNCHANGED disabledInputs

CloseMIDI ==
    /\ ncalls < MaxCalls
    /\ \A t \in tasks : t.kind # "closeMIDI"
    /\ PortStep("closeMIDI", closeMIDI(Ctx),
                Tracked(openInputs) \cup Tracked(openOutputs))
    /\ UNCHANGED disabledInputs

\* JZZ() settles for a GetPorts call
GetPorts_EngineReady(task, ok, info) ==
    /\ task \in tasks
    /\ task.kind = "GetPorts"
    /\ task.pc = "engine"
    /\ PortStep("GetPorts",
                IF ok
                THEN scanList([Finish(Ctx, task) EXCEPT !.jzzEngine = "up"],
                              task, info)
                ELSE [Finish(Ctx, task) EXCEPT !.res = "error",
                                               !.failed = TRUE],
                {})
    /\ UNCHANGED disabledInputs

\* JZZ() settles for an OpenPort call: openMidiIn is called, or the
\* rejection is caught and OpenPort returns
OpenPort_EngineReady(task, ok) ==
    /\ task \in tasks
    /\ task.kind = "OpenPort"
    /\ task.pc = "engine"
    /\ LET st == IF ok
                 THEN [Ctx EXCEPT !.jzzEngine = "up",
                                  !.tasks = (tasks \ {task}) \cup
                                      {[task EXCEPT !.pc = "openIn"]},
                                  !.res = "pending"]
                 ELSE resumeParent(Finish(Ctx, task), task, TRUE)
       IN PortStep(IF task.parent # 0 /\ st.res = "done" THEN "GetPorts"
                   ELSE "OpenPort", st, {})
    /\ UNCHANGED disabledInputs

\* engine.openMidiIn settles
OpenPort_Opened(task, ok) ==
    /\ task \in tasks
    /\ task.kind = "OpenPort"
    /\ task.pc = "openIn"
    /\ ok => Len(handles) < MaxHandles /\ task.name \in InputNames
    /\ LET st == resumeParent(OpenPort_opened(Finish(Ctx, task), task, ok),
                              task, ~ok)
       IN PortStep(IF task.parent # 0 /\ st.res = "done" THEN "GetPorts"
                   ELSE "OpenPort", st, {})
    /\ UNCHANGED disabledInputs

\* input.close() settles for a ClosePort call
ClosePort_Closed(task, ok) ==
    /\ task \in tasks
    /\ task.kind = "ClosePort"
    /\ PortStep("ClosePort",
                [ClosePort_closed(Finish(Ctx, task), task, ok)
                   EXCEPT !.res = "returned", !.failed = ~ok],
                {})
    /\ UNCHANGED disabledInputs

\* sendMIDI after its await of JZZ()
sendMIDI_engine(st, task, ok) ==
    IF ok
    THEN sendMIDI_output([st EXCEPT !.jzzEngine = "up"], task.midiObj,
                         task.cb)
    ELSE callback(st, task.cb, "error", task.midiObj)

SendMIDI_EngineReady(task, ok) ==
    /\ task \in tasks
    /\ task.kind = "sendMIDI"
    /\ task.pc = "engine"
    /\ PortStep("sendMIDI", sendMIDI_engine(Finish(Ctx, task), task, ok), {})
    /\ UNCHANGED disabledInputs

\* a close() of closeMIDI settles
CloseMIDI_Closed(task, ok) ==
    /\ task \in tasks
    /\ task.kind = "closeMIDI"
    /\ PortStep("closeMIDI", closeMIDI_closed(Finish(Ctx, task), task, ok),
                task.tracked)
    /\ UNCHANGED disabledInputs

----------------------------------------------------------------------------
(* Specification of the port registry, from the start of the process *)

InitPorts == InitBase

NextPorts ==
    \/ \E info \in TransportInfos : Scan(info)
    \/ \E name \in InputNames : OpenPortCall(name)
    \/ \E name \in InputNames : ClosePortCall(name)
    \/ \E name \in InputNames : Toggle(name, MaxCalls)
    \/ \E midiObj \in SendObjs : SendMIDI(midiObj)
    \/ CloseMIDI
    \/ \E t \in tasks, ok \in BOOLEAN, info \in TransportInfos :
          GetPorts_EngineReady(t, ok, info)
    \/ \E t \in tasks, ok \in BOOLEAN : OpenPort_EngineReady(t, ok)
    \/ \E t \in tasks, ok \in BOOLEAN : OpenPort_Opened(t, ok)
    \/ \E t \in tasks, ok \in BOOLEAN : ClosePort_Closed(t, ok)
    \/ \E t \in tasks, ok \in BOOLEAN : SendMIDI_EngineReady(t, ok)
    \/ \E t \in tasks, ok \in BOOLEAN : SendMIDI_OutputOpened(t, ok)
    \/ \E t \in tasks, ok \in BOOLEAN : CloseMIDI_Closed(t, ok)

SpecPorts == InitPorts /\ [][NextPorts]_vars

\* the handles of kind the transport has handed out for a port name
HandlesFor(kind, name) ==
    {h \in 1..Len(handles) :
        handles[h].kind = kind /\ handles[h].name = name}

\* C5: Open(name) is idempotent, also under overlapping calls: at most one
\* input handle with a registered receive callback exists for a port name.
C5_OneHandlePerInput ==
    \A name \in InputNames :
        Cardinality({h \in HandlesFor("in", name) :
                        handles[h].connected /\ ~handles[h].closed}) <= 1

\* C7: after a scan that completes with a working transport every listed
\* input that is not disabled is open, and the scan never opens a handle
\* for an input that is in the disabled set at the moment of opening (the
\* moment OpenPort, called by the scan, calls engine.openMidiIn).
C7_ScanOpensEnabledOnly ==
    /\ []((lastOp.op = "GetPorts" /\ lastOp.res = "done" /\ ~lastOp.failed)
          => \A k \in 1..Len(MIDI_INPUTS) :
                ~isInputDisabled(MIDI_INPUTS[k].name)
                    => MapHas(openInputs, MIDI_INPUTS[k].name))
    /\ [][\A t \in tasks' \ tasks :
             (t.kind = "OpenPort" /\ t.by = "scan" /\ t.pc = "openIn")
                 => t.name \notin Range(disabledInputs')]_vars

\* C8: at most one output handle is opened per output port name between
\* startup and shutdown; every send after the first reuses the cached one.
C8_OneHandlePerOutput ==
    \A name \in OutputNames :
        Cardinality({h \in HandlesFor("out", name) :
                        handles[h].closeCalls = 0}) <= 1

\* C9: when closeMIDI completes, close has been attempted on every handle
\* that was tracked, no handle remains tracked as open, and the transport
\* session is closed.
C9_ShutdownClosesEverything ==
    (lastOp.op = "closeMIDI" /\ lastOp.res = "done")
        => /\ \A h \in lastOp.tracked : handles[h].closeCalls > 0
           /\ openInputs = <<>>
           /\ openOutputs = <<>>
           /\ jzzEngine = NULL

----------------------------------------------------------------------------
(* Specification of the enable/disable toggle: the startup scan has        *)
(* opened both inputs, the transport does not fail, and only               *)
(* toggleInputDisabled is called                                           *)

InitToggle ==
    /\ MIDIRelaysLog = <<>>
    /\ appended = <<>>
    /\ cfgTriggers = <<>>
    /\ MIDI_TRIGGERS = <<>>
    /\ disabledInputs = <<>>
    /\ MIDI_INPUTS = <<[name |-> "A", opened |-> TRUE],
                       [name |-> "B", opened |-> TRUE]>>
    /\ MIDI_OUTPUTS = <<"X">>
    /\ jzzEngine = "up"
    /\ openInputs = <<[name |-> "A", h |-> 1], [name |-> "B", h |-> 2]>>
    /\ openOutputs = <<>>
    /\ handles = <<NewHandle("in", "A", TRUE, "scan"),
                   NewHandle("in", "B", TRUE, "scan")>>
    /\ tasks = {}
    /\ sent = <<>>
    /\ virtualInPort = "midi-relay-hub"
    /\ sink = <<>>
    /\ rxHist = <<>>
    /\ execs = <<>>
    /\ httpDone = <<>>
    /\ ncalls = 0
    /\ lastOp = [op |-> "none", res |-> "none", failed |-> FALSE,
                 tracked |-> {}]

NextToggle ==
    \/ \E name \in InputNames : Toggle(name, MaxToggles)
    \/ \E t \in tasks : OpenPort_Opened(t, TRUE)
    \/ \E t \in tasks : ClosePort_Closed(t, TRUE)

SpecToggle == InitToggle /\ [][NextToggle]_vars

\* C6: after any sequence of toggles, once every pending open and close
\* has completed, an input is open exactly when it is not disabled.
C6_OpenIffEnabled ==
    tasks = {} =>
        \A name \in InputNames :
            MapHas(openInputs, name) <=> ~isInputDisabled(name)

----------------------------------------------------------------------------
(* Startup: startMIDI awaits initEngine, GetPorts and                      *)
(* createVirtualMIDIPort in turn                                           *)

\* createVirtualMIDIPort with the engine up: await initEngine() is a
\* microtask, then the widgets are registered, or what JZZ throws is caught
createVirtualMIDIPort(st, ok) ==
    IF ok THEN [st EXCEPT !.virtualInPort = "midi-relay-hub"] ELSE st

\* startMIDI after its await of GetPorts
startMIDI_scanned(st, task, ok) ==
    [createVirtualMIDIPort(Finish(st, task), ok) EXCEPT !.res = "done"]

\* the startMIDI call that waits for a GetPorts call that has returned
Scanned(st) ==
    {t \in st.tasks :
        /\ t.kind = "startMIDI"
        /\ t.pc = "scan"
        /\ \A g \in st.tasks : ~(g.kind = "GetPorts" /\ g.id = t.scan)}

\* the caller of a finished GetPorts goes on
resumeStartMIDI(st, ok) ==
    IF Scanned(st) = {} THEN st
    ELSE startMIDI_scanned(st, CHOOSE t \in Scanned(st) : TRUE, ok)

\* startMIDI after its await of initEngine(): a rejection of JZZ() is
\* rethrown by initEngine and ends startMIDI; otherwise GetPorts is called
startMIDI_engine(st, task, ok, info, vok) ==
    IF ok
    THEN LET st0 == [Finish(st, task) EXCEPT !.jzzEngine = "up"]
             st1 == GetPorts(st0, info)
         IN IF st1.res = "done"
            THEN [createVirtualMIDIPort(st1, vok) EXCEPT !.res = "done"]
            ELSE [st1 EXCEPT !.tasks = st1.tasks \cup
                                 {[task EXCEPT !.pc = "scan",
                                               !.scan = st0.n + 1]},
                             !.res = "pending"]
    ELSE [Finish(st, task) EXCEPT !.res = "error", !.failed = TRUE]

\* the call of startMIDI, the first call of the process
StartMIDI ==
    /\ ncalls = 0
    /\ PortStep("startMIDI",
                [Spawn(Ctx, [id |-> 0, kind |-> "startMIDI", pc |-> "engine",
                             scan |-> 0])
                   EXCEPT !.res = "pending"],
                {})
    /\ UNCHANGED disabledInputs

\* JZZ() settles for startMIDI
StartMIDI_EngineReady(task, ok, info, vok) ==
    /\ task \in tasks
    /\ task.kind = "startMIDI"
    /\ task.pc = "engine"
    /\ PortStep("startMIDI", startMIDI_engine(Ctx, task, ok, info, vok), {})
    /\ UNCHANGED disabledInputs

\* engine.openMidiIn settles while startMIDI may be waiting for the scan
StartMIDI_PortOpened(task, ok, vok) ==
    /\ task \in tasks
    /\ task.kind = "OpenPort"
    /\ task.pc = "openIn"
    /\ ok => Len(handles) < MaxHandles /\ task.name \in InputNames
    /\ LET st1 == resumeParent(OpenPort_opened(Finish(Ctx, task), task, ok),
                               task, ~ok)
           st == resumeStartMIDI(st1, vok)
       IN PortStep(IF Scanned(st1) # {} THEN "startMIDI"
                   ELSE IF task.parent # 0 /\ st.res = "done" THEN "GetPorts"
                   ELSE "OpenPort", st, {})
    /\ UNCHANGED disabledInputs

\* the process has started: the store holds the triggers of an earlier run
InitStartup ==
    /\ MIDIRelaysLog = <<>>
    /\ appended = <<>>
    /\ cfgTriggers \in StoredAtStart
    /\ MIDI_TRIGGERS = <<>>
    /\ disabledInputs = <<>>
    /\ MIDI_INPUTS = <<>>
    /\ MIDI_OUTPUTS = <<>>
    /\ jzzEngine = NULL
    /\ openInputs = <<>>
    /\ openOutputs = <<>>
    /\ handles = <<>>
    /\ tasks = {}
    /\ sent = <<>>
    /\ virtualInPort = NULL
    /\ sink = <<>>
    /\ rxHist = <<>>
    /\ execs = <<>>
    /\ httpDone = <<>>
    /\ ncalls = 0
    /\ lastOp = [op |-> "none", res |-> "none", failed |-> FALSE,
                 tracked |-> {}]

NextStartup ==
    \/ StartMIDI
    \/ \E t \in tasks, ok \in BOOLEAN, info \in TransportInfos,
          vok \in BOOLEAN : StartMIDI_EngineReady(t, ok, info, vok)
    \/ \E t \in tasks, ok \in BOOLEAN, vok \in BOOLEAN :
          StartMIDI_PortOpened(t, ok, vok)
    \/ \E name \in InputNames : ncalls > 0 /\ Toggle(name, MaxToggles)
    \/ \E t \in tasks, ok \in BOOLEAN : OpenPort_EngineReady(t, ok)
    \/ \E t \in tasks, ok \in BOOLEAN : ClosePort_Closed(t, ok)

SpecStartup == InitStartup /\ [][NextStartup]_vars

\* C12: once startMIDI has finished, with or without an error of the engine
\* or of the scan, the active set equals the persisted trigger list.
C12_StartupLoadsTriggers ==
    (lastOp.op = "startMIDI" /\ lastOp.res \in {"done", "error"})
        => MIDI_TRIGGERS = cfgTriggers

----------------------------------------------------------------------------
(* The test action: testTrigger *)

\* the fetchOptions of testTrigger
testOptions(trigger) ==
    LET method == IF Truthy(trigger.method) THEN trigger.method
                  ELSE IF Truthy(trigger.jsondata) THEN "POST" ELSE "GET"
    IN IF Truthy(trigger.jsondata)
       THEN [method |-> method, headers |-> JsonHeaders,
             body |-> trigger.jsondata, timeoutMs |-> httpTimeout]
       ELSE [method |-> method, headers |-> NoHeaders, body |-> NoBody,
             timeoutMs |-> httpTimeout]

\* testTrigger up to its await of fetch
testTrigger(st, cfg, triggerId) ==
    LET index == findIndex(cfg, triggerId)
    IN IF index = 0 THEN [st EXCEPT !.res = "Trigger not found"]
       ELSE IF cfg[index].actiontype = "http"
            THEN [Spawn(st, [id |-> 0, kind |-> "testTrigger",
                             url |-> cfg[index].url,
                             options |-> testOptions(cfg[index])])
                    EXCEPT !.res = "pending"]
            ELSE [st EXCEPT !.res = "Test not supported"]

\* what testTrigger returns once its fetch has settled
testTrigger_settled(outcome) ==
    IF outcome.kind = "response"
    THEN [success |-> outcome.status \in 200..299,
          status |-> outcome.status, error |-> ""]
    ELSE [success |-> FALSE, status |-> 0,
          error |-> IF outcome.name = "AbortError"
                    THEN "Timeout after 5000ms" ELSE "error.message"]

\* http triggers that differ in method and body
TPost == [NoTrigger EXCEPT !.id = "trigger-10", !.midicommand = "noteon",
                           !.actiontype = "http", !.url = "http://ten",
                           !.method = "POST"]
TTrace == [NoTrigger EXCEPT !.id = "trigger-11", !.midicommand = "noteon",
                            !.actiontype = "http", !.url = "http://eleven",
                            !.method = "TRACE"]

\* the stored lists the test action is explored with
TestStores == {<<T1, T2>>, <<TPost, TTrace>>, <<TBadJson, TMidi>>}
TestIds == {"trigger-1", "trigger-2", "trigger-10", "trigger-11",
            "trigger-6", "trigger-5", "trigger-0"}

TestTrigger(triggerId) ==
    /\ ncalls < MaxCalls
    /\ LET st == testTrigger(Call, cfgTriggers, triggerId)
       IN /\ Commit(st)
          /\ lastOp' = [op |-> "testTrigger", res |-> st.res,
                        arg |-> triggerId]
    /\ UNCHANGED <<cfgTriggers, disabledInputs, histVars>>

\* the fetch of a test settles and testTrigger returns
TestTrigger_FetchSettles(task, outcome) ==
    /\ task \in tasks
    /\ task.kind = "testTrigger"
    /\ Commit(Finish(Ctx, task))
    /\ lastOp' = [op |-> "testTrigger_fetch",
                  res |-> testTrigger_settled(outcome), arg |-> task.url]
    /\ UNCHANGED <<cfgTriggers, disabledInputs, histVars>>

InitTest ==
    /\ MIDIRelaysLog = <<>>
    /\ appended = <<>>
    /\ cfgTriggers \in TestStores
    /\ MIDI_TRIGGERS = cfgTriggers
    /\ disabledInputs = <<>>
    /\ MIDI_INPUTS = <<[name |-> "A", opened |-> TRUE]>>
    /\ MIDI_OUTPUTS = <<"X">>
    /\ jzzEngine = "up"
    /\ openInputs = <<[name |-> "A", h |-> 1]>>
    /\ openOutputs = <<>>
    /\ handles = <<NewHandle("in", "A", TRUE, "scan")>>
    /\ tasks = {}
    /\ sent = <<>>
    /\ virtualInPort = "midi-relay-hub"
    /\ sink = <<>>
    /\ rxHist = <<>>
    /\ execs = <<>>
    /\ httpDone = <<>>
    /\ ncalls = 0
    /\ lastOp = [op |-> "none", res |-> "none", arg |-> "none"]

NextTest ==
    \/ \E id \in TestIds : TestTrigger(id)
    \/ \E t \in tasks, o \in FetchOutcomes : TestTrigger_FetchSettles(t, o)

SpecTest == InitTest /\ [][NextTest]_vars

\* the requests, as url and options, among the tasks ts
Requests(ts) ==
    {[url |-> t.url, options |-> t.options] :
        t \in {x \in ts : x.kind \in {"fetch", "testTrigger"}}}

\* C15: for every stored http trigger the test action issues a request
\* exactly when the triggered action would, with the same method, headers,
\* body and timeout; its outcome is returned and not logged.
C15_TestUsesSameCall ==
    [][ /\ (lastOp'.op = "testTrigger"
            /\ findIndex(cfgTriggers, lastOp'.arg) # 0) =>
               LET trigger == cfgTriggers[findIndex(cfgTriggers, lastOp'.arg)]
               IN trigger.actiontype = "http" =>
                     Requests(tasks' \ tasks)
                       = Requests(runMIDITrigger_HTTP(Ctx, trigger, 0, 0).tasks
                                    \ tasks)
        /\ lastOp'.op \in {"testTrigger", "testTrigger_fetch"} =>
               appended' = appended
      ]_vars

----------------------------------------------------------------------------
(* Specification of the codec on the receive path: input A is open and     *)
(* delivers messages of every kind                                         *)

\* triggers that would match an event of type 'unknown' or '' if one were
\* passed to processMIDITriggers
TUnknownType == [NoTrigger EXCEPT !.id = "trigger-12",
                                  !.midicommand = "unknown",
                                  !.actiontype = "http",
                                  !.url = "http://twelve"]
TEmptyType == [NoTrigger EXCEPT !.id = "trigger-13", !.midicommand = "",
                                !.actiontype = "http",
                                !.url = "http://thirteen"]

CodecSets == {<<TUnknownType, TEmptyType>>, <<T1>>}

\* the messages delivered: one of every type of the table, on several
\* channels; MSC messages of several lengths and a sysex message that only
\* resembles one; an empty message and status bytes outside the table
CodecMessages ==
    {<<128, 60, 0>>, <<144, 60, 100>>, <<159, 61, 1>>, <<147, 60, 0>>,
     <<177, 7, 100>>, <<194, 5>>, <<211, 90>>, <<224, 1, 2>>,
     <<239, 127, 127>>,
     <<240, 1, 2, 247>>, <<240, 127, 5, 3, 1, 1, 247>>,
     <<240, 127, 5, 2>>, <<240, 127, 5, 2, 247>>,
     <<240, 127, 5, 2, 1, 6, 49, 247>>,
     <<>>, <<160, 1, 1>>, <<241>>, <<255>>, <<60, 1>>}

InitCodec ==
    /\ MIDIRelaysLog = <<>>
    /\ appended = <<>>
    /\ cfgTriggers \in CodecSets
    /\ MIDI_TRIGGERS = cfgTriggers
    /\ disabledInputs = <<>>
    /\ MIDI_INPUTS = <<[name |-> "A", opened |-> TRUE]>>
    /\ MIDI_OUTPUTS = <<"X">>
    /\ jzzEngine = "up"
    /\ openInputs = <<[name |-> "A", h |-> 1]>>
    /\ openOutputs = <<>>
    /\ handles = <<NewHandle("in", "A", TRUE, "scan")>>
    /\ tasks = {}
    /\ sent = <<>>
    /\ virtualInPort = "midi-relay-hub"
    /\ sink = <<>>
    /\ rxHist = <<>>
    /\ execs = <<>>
    /\ httpDone = <<>>
    /\ ncalls = 0
    /\ lastOp = [op |-> "none", res |-> "none"]

NextCodec ==
    \/ \E h \in 1..Len(handles), m \in CodecMessages : Receive(h, m)
    \/ \E t \in tasks, o \in RelayOutcomes : FetchSettles(t, o)

SpecCodec == InitCodec /\ [][NextCodec]_vars

\* the step is a call of receiveMIDI, and the message it is called with
Received == Len(rxHist') = Len(rxHist) + 1
Msg == rxHist'[Len(rxHist')].message

\* the event the step has published to the inbound sink
Published == Len(sink') = Len(sink) + 1
Event == sink'[Len(sink')]

\* the status byte of a non-empty message is in the decode table
InTable(m) ==
    /\ m # <<>>
    /\ \/ m[1] \div 16 \in {8, 9, 11, 12, 13, 14}
       \/ m[1] = 240

\* C17: a received message that is empty or whose status byte is not in the
\* decode table produces no log entry, no publication to the inbound sink
\* and no trigger evaluation; the log and the active set are unchanged.
C17_UnknownIsDropped ==
    [][(Received /\ ~InTable(Msg))
         => /\ UNCHANGED <<MIDIRelaysLog, appended, sink, execs, tasks, sent,
                           MIDI_TRIGGERS, cfgTriggers>>
            /\ lastOp'.res = "returned"]_vars

\* an empty message and a message with status 0xA0 have been received
\* while a trigger for the type 'unknown' is active: nothing was logged
C17_Witness ==
    /\ Len(rxHist) = 2
    /\ rxHist[1].message = <<160, 1, 1>>
    /\ rxHist[2].message = <<>>
    /\ MIDI_TRIGGERS[1].midicommand = "unknown"
    /\ appended = <<>>

----------------------------------------------------------------------------
(* Specification of trigger matching: input A is open, the active set      *)
(* holds triggers with wildcard criteria, note messages arrive on every    *)
(* channel                                                                 *)

\* channel '*' and note 60
TStar60 == [NoTrigger EXCEPT !.id = "trigger-14", !.midicommand = "noteon",
                             !.channel = Star, !.note = 60,
                             !.actiontype = "osc"]
\* channel 3 and note '*'
TChan3 == [NoTrigger EXCEPT !.id = "trigger-15", !.midicommand = "noteon",
                            !.channel = 3, !.note = Star,
                            !.actiontype = "osc"]
\* every criterion '*'
TAllStar(midicommand) ==
    [NoTrigger EXCEPT !.id = midicommand, !.midicommand = midicommand,
                      !.channel = Star, !.note = Star, !.velocity = Star,
                      !.controller = Star, !.value = Star,
                      !.actiontype = "osc"]

MatchSets ==
    {<<TStar60, TChan3>>,
     <<TAllStar("noteon"), TAllStar("noteoff"), TAllStar("cc")>>,
     <<TAllStar("pc"), TAllStar("pitchbend"), TAllStar("sysex"),
       TAllStar("msc")>>}

MatchMessages ==
    {<<144 + c, n, 100>> : c \in 0..15, n \in {60, 61}}
      \cup {<<131, 60, 0>>, <<179, 7, 1>>, <<194, 5>>, <<224, 1, 2>>,
            <<240, 1, 247>>, <<240, 127, 5, 2, 1, 6, 247>>}

InitMatch ==
    /\ MIDIRelaysLog = <<>>
    /\ appended = <<>>
    /\ cfgTriggers \in MatchSets
    /\ MIDI_TRIGGERS = cfgTriggers
    /\ disabledInputs = <<>>
    /\ MIDI_INPUTS = <<[name |-> "A", opened |-> TRUE]>>
    /\ MIDI_OUTPUTS = <<"X">>
    /\ jzzEngine = "up"
    /\ openInputs = <<[name |-> "A", h |-> 1]>>
    /\ openOutputs = <<>>
    /\ handles = <<NewHandle("in", "A", TRUE, "scan")>>
    /\ tasks = {}
    /\ sent = <<>>
    /\ virtualInPort = "midi-relay-hub"
    /\ sink = <<>>
    /\ rxHist = <<>>
    /\ execs = <<>>
    /\ httpDone = <<>>
    /\ ncalls = 0
    /\ lastOp = [op |-> "none", res |-> "none"]

NextMatch == \E h \in 1..Len(handles), m \in MatchMessages : Receive(h, m)

SpecMatch == InitMatch /\ [][NextMatch]_vars

\* the step has called executeTrigger with the i-th active trigger
Executed(i) == \E k \in NewExecs : execs'[k].idx = i

Criteria == {"channel", "note", "velocity", "controller", "value"}

\* the trigger with every criterion that is '*' left out
Unstar(t) ==
    [f \in DOMAIN t |->
       IF f \in Criteria THEN (IF t[f] = Star THEN Undef ELSE t[f])
       ELSE t[f]]

\* C18: the trigger with channel '*' and note 60 matches a noteon of note 60
\* on every channel 0..15 and does not match note 61; a criterion set to
\* '*' never makes the match fail, whether or not the event carries the
\* field: a trigger matches exactly when it matches with its '*' criteria
\* left out, and a trigger whose criteria are all '*' matches every event
\* of its type.
C18_WildcardsMatch ==
    [][(Received /\ Published)
         => /\ (MIDI_TRIGGERS[1] = TStar60 /\ Event.type = "noteon")
                 => /\ Msg[2] = 60 => Executed(1)
                    /\ Msg[2] = 61 => ~Executed(1)
            /\ \A i \in 1..Len(MIDI_TRIGGERS) :
                 LET t == MIDI_TRIGGERS[i]
                 IN /\ Executed(i)
                         <=> matchesTrigger(Unstar(t), Event.port, Event.type,
                                            Event.data) = "true"
                    /\ (t = TAllStar(Event.type)) => Executed(i)]_vars

\* note 60 has arrived on channels 15 and 0 and the trigger with channel
\* '*' ran both times
C18_Witness ==
    /\ MIDI_TRIGGERS[1] = TStar60
    /\ Len(rxHist) = 2
    /\ rxHist[1].message = <<159, 60, 100>>
    /\ rxHist[2].message = <<144, 60, 100>>
    /\ \A n \in 1..2 : Invoked(n, 1)

----------------------------------------------------------------------------
(* The decode table, checked under SpecCodec *)

\* the type the high nibble of the first byte stands for
NibbleType(m) ==
    LET hi == m[1] \div 16
    IN CASE hi = 8 -> "noteoff"
         [] hi = 9 -> IF m[3] = 0 THEN "noteoff" ELSE "noteon"
         [] hi = 11 -> "cc"
         [] hi = 12 -> "pc"
         [] hi = 13 -> "pressure"
         [] hi = 14 -> "pitchbend"
         [] OTHER -> "sysex"

\* the bytes begin F0 7F <id> 02
BeginsMSC(m) == Len(m) >= 4 /\ m[1] = 240 /\ m[2] = 127 /\ m[4] = 2

\* C19 as stated: for every non-empty received message with a status byte
\* of the table the decoded type is the one of the high nibble (0x90 with
\* velocity 0 is noteoff, exactly 0xF0 is sysex), a pitchbend carries
\* lsb | (msb << 7), and the channel of the event is the low nibble of the
\* first byte.
C19_TypeFromHighNibble ==
    [][(Received /\ InTable(Msg))
         => /\ Published
            /\ Event.type = NibbleType(Msg)
            /\ Event.data.channel = Msg[1] % 16
            /\ Event.type = "pitchbend"
                 => Event.data.value = Msg[2] + 128 * Msg[3]]_vars

\* C19, amended: as stated, except that a message with status 0xF0 is
\* decoded as sysex or, only when its bytes begin F0 7F <id> 02, as msc,
\* and that an msc event carries no channel.
C19_TypeFromHighNibbleOrMsc ==
    [][(Received /\ InTable(Msg))
         => /\ Published
            /\ \/ Event.type = NibbleType(Msg)
               \/ Event.type = "msc" /\ BeginsMSC(Msg)
            /\ Event.data.channel
                 = (IF Event.type = "msc" THEN Undef ELSE Msg[1] % 16)
            /\ Event.type = "pitchbend"
                 => Event.data.value = Msg[2] + 128 * Msg[3]]_vars

\* a Note On of velocity 0 on channel 3 was published as a noteoff on
\* channel 3, and a pitch bend of 127, 127 on channel 15 as the value 16383
C19_Witness ==
    /\ Len(sink) = 2
    /\ rxHist[1].message = <<147, 60, 0>>
    /\ sink[1].type = "noteoff" /\ sink[1].data.channel = 3
    /\ rxHist[2].message = <<239, 127, 127>>
    /\ sink[2].type = "pitchbend" /\ sink[2].data.channel = 15
    /\ sink[2].data.value = 16383

\* C20: every received message whose bytes begin F0 7F <id> 02, of any
\* length of at least 4 bytes, is classified as msc and not as sysex; the
\* msc event carries deviceid = byte 2 and, when present, commandformat =
\* byte 4 and command = byte 5.
C20_MscPrefixIsMsc ==
    [][(Received /\ BeginsMSC(Msg))
         => /\ Published
            /\ Event.type = "msc"
            /\ Event.data.deviceid = Msg[3]
            /\ Len(Msg) >= 5 => Event.data.commandformat = Msg[5]
            /\ Len(Msg) >= 6 => Event.data.command = Msg[6]]_vars

\* the RX entry the step has appended to the log
RxEntry == appended'[Len(appended) + 1]

\* C21: a decoded event of type sysex or msc carries no channel, in the log
\* entry and in the event published and matched against the triggers; an
\* event of every other recognised type carries a channel in 0..15.
C21_NoChannelOnSysex ==
    [][(Received /\ Published)
         => /\ RxEntry.direction = "RX"
            /\ RxEntry.data = Event.data
            /\ IF Event.type \in {"sysex", "msc"}
               THEN Event.data.channel = Undef
               ELSE Event.data.channel \in 0..15]_vars

----------------------------------------------------------------------------
(* Specification of a loopback: output X and input A are open, and the     *)
(* transport delivers to input A every message sent to output X            *)

MaxSends == 2        \* sendMIDI calls in one behaviour of the loopback

NoteOn(channel, note, velocity) ==
    [NoMidiObj EXCEPT !.midiport = "X", !.midicommand = "noteon",
                      !.channel = channel, !.note = note,
                      !.velocity = velocity]

\* the requests sent: note 60 on every channel with the least velocity, the
\* greatest velocity, velocity 0, the least and the greatest note, and
\* commands the switch does not know
LoopObjs ==
    {NoteOn(c, 60, 1) : c \in 0..15}
      \cup {NoteOn(c, 60, 127) : c \in {0, 15}}
      \cup {NoteOn(c, 60, 0) : c \in {0, 9, 15}}
      \cup {NoteOn(0, n, 64) : n \in {0, 127}}
      \cup {[NoMidiObj EXCEPT !.midiport = "X", !.midicommand = cmd,
                              !.channel = 0, !.note = 60, !.velocity = 100]
              : cmd \in {"start", "bogus"}}

InitLoop ==
    /\ MIDIRelaysLog = <<>>
    /\ appended = <<>>
    /\ cfgTriggers = <<>>
    /\ MIDI_TRIGGERS = cfgTriggers
    /\ disabledInputs = <<>>
    /\ MIDI_INPUTS = <<[name |-> "A", opened |-> TRUE]>>
    /\ MIDI_OUTPUTS = <<"X">>
    /\ jzzEngine = "up"
    /\ openInputs = <<[name |-> "A", h |-> 1]>>
    /\ openOutputs = <<[name |-> "X", h |-> 2]>>
    /\ handles = <<NewHandle("in", "A", TRUE, "scan"),
                   NewHandle("out", "X", FALSE, "send")>>
    /\ tasks = {}
    /\ sent = <<>>
    /\ virtualInPort = "midi-relay-hub"
    /\ sink = <<>>
    /\ rxHist = <<>>
    /\ execs = <<>>
    /\ httpDone = <<>>
    /\ ncalls = 0
    /\ lastOp = [op |-> "none", res |-> "none"]

LoopSend(midiObj) ==
    /\ ncalls < MaxSends
    /\ SendMIDI(midiObj)

\* the next message sent to X arrives at A
Loopback ==
    /\ Len(rxHist) < Len(sent)
    /\ Receive(1, sent[Len(rxHist) + 1].message)

NextLoop ==
    \/ \E midiObj \in LoopObjs : LoopSend(midiObj)
    \/ Loopback

SpecLoop == InitLoop /\ [][NextLoop]_vars

\* the request whose message the step has delivered
Request == sent[Len(rxHist')].midiObj

\* C22: for every channel in 0..15, note in 0..127 and velocity in 1..127,
\* decoding the bytes encoded for a noteon request yields an event of type
\* noteon with the same channel, note and velocity.
C22_NoteOnRoundTrip ==
    [][(Received /\ Request.midicommand = "noteon"
          /\ Request.velocity \in 1..127)
         => /\ Published
            /\ Event.type = "noteon"
            /\ Event.data.channel = Request.channel
            /\ Event.data.note = Request.note
            /\ Event.data.velocity = Request.velocity]_vars

\* a noteon of velocity 1 on channel 15 and one of note 127 on channel 0
\* came back as sent
C22_Witness ==
    /\ Len(sink) = 2
    /\ sent[1].midiObj = NoteOn(15, 60, 1)
    /\ sink[1].type = "noteon" /\ sink[1].data.channel = 15
    /\ sink[1].data.velocity = 1
    /\ sent[2].midiObj = NoteOn(0, 127, 64)
    /\ sink[2].type = "noteon" /\ sink[2].data.note = 127

\* C23: a noteon request with velocity 0 is encoded to a message with status
\* 0x90 + channel, and decoding that message yields an event of type
\* noteoff.
C23_VelocityZeroIsNoteOff ==
    [][(Received /\ Request.midicommand = "noteon" /\ Request.velocity = 0)
         => /\ Msg[1] = 144 + Request.channel
            /\ Published
            /\ Event.type = "noteoff"]_vars

\* C24: sending a request whose command is none of the eight recognised
\* commands reports invalid-midi-command to the caller and does not raise;
\* no bytes are passed to the transport and no log entry is appended.
C24_UnknownCommandIsReported ==
    [][\A midiObj \in LoopObjs :
         (LoopSend(midiObj)
            /\ toLowerCase(midiObj.midicommand) \notin VALID_MIDI_COMMANDS)
           => /\ lastOp'.res = "invalid-midi-command"
              /\ UNCHANGED <<sent, appended, MIDIRelaysLog, tasks>>]_vars

\* a request with an unknown command was made after one that was sent
C24_Witness ==
    /\ ncalls = 2
    /\ Len(sent) = 1
    /\ Len(appended) = 1
    /\ lastOp.op = "sendMIDI"
    /\ lastOp.res = "invalid-midi-command"

----------------------------------------------------------------------------
(* Specification of MSC requests over the loopback *)

Msc(deviceid) ==
    [NoMidiObj EXCEPT !.midiport = "X", !.midicommand = "msc",
                      !.deviceid = deviceid,
                      !.commandformat = "lighting.general",
                      !.command = "go", !.cue = "12"]

\* device ids: numbers in and out of 0..111, 'all', groups in and out of
\* 1..15, another string, and no id at all
MscObjs ==
    {Msc(DevNum(n)) : n \in {0, 50, 111, 112, 200}}
      \cup {Msc(DevStr(str)) : str \in {"all", "g1", "g3", "g15", "g0", "g16",
                                        "gx", "lights"}}
      \cup {Msc(DevUndef)}

NextMsc ==
    \/ \E midiObj \in MscObjs : LoopSend(midiObj)
    \/ Loopback

SpecMsc == InitLoop /\ [][NextMsc]_vars

\* the byte the device id stands for
DeviceByte(deviceid) ==
    CASE deviceid.t = "num" /\ deviceid.v \in 0..111 -> deviceid.v
      [] deviceid.t = "str" /\ deviceid.s = "g1" -> 112
      [] deviceid.t = "str" /\ deviceid.s = "g3" -> 114
      [] deviceid.t = "str" /\ deviceid.s = "g15" -> 126
      [] OTHER -> 127

\* C25: the device id of an MSC request is always resolved: an integer in
\* 0..111 to itself, 'all' to 0x7F, 'gN' with N in 1..15 to 0x70 + (N - 1),
\* every other input, an absent id included, to 0x7F; the MSC message is
\* built and sent with that byte at index 2.
C25_DeviceIdIsTotal ==
    [][\A midiObj \in MscObjs :
         LoopSend(midiObj)
           => /\ lastOp'.res = "midi-sent-successfully"
              /\ Len(sent') = Len(sent) + 1
              /\ LET message == sent'[Len(sent')].message
                 IN /\ Len(message) >= 7
                    /\ message[1] = 240 /\ message[2] = 127
                    /\ message[3] = DeviceByte(midiObj.deviceid)
                    /\ message[4] = 2]_vars

----------------------------------------------------------------------------
(* Specification of the validators: they are called with requests and      *)
(* triggers of every shape, on an engine that is not started               *)

otherThanLastOp == <<MIDIRelaysLog, appended, cfgTriggers, MIDI_TRIGGERS,
                     disabledInputs, MIDI_INPUTS, MIDI_OUTPUTS, jzzEngine,
                     openInputs, openOutputs, handles, tasks, sent,
                     virtualInPort, sink, rxHist, execs, httpDone, ncalls>>

\* the parameter names and the values validateMIDIValue is called with
ParamNames == LimitNames \cup {"unknown"}
FieldValues ==
    {Num(n) : n \in {-1, 0, 7, 15, 16, 127, 128, 8192, 16383, 16384}}
      \cup {Frac(7), Frac(127), Str("*"), Str("abc"), Str("12abc"),
            Undefined}

\* the validators keep no state: one call is looked at in a behaviour
ValidateMIDIValue(paramName, value, allowWildcard) ==
    /\ lastOp.op = "none"
    /\ lastOp' = [op |-> "validateMIDIValue", paramName |-> paramName,
                  value |-> value, allowWildcard |-> allowWildcard,
                  res |-> validateMIDIValue(paramName, value, allowWildcard)]
    /\ UNCHANGED otherThanLastOp

\* the requests validateMIDIObject is called with: every command, also an
\* unknown and an absent one, with fields absent, in range, out of range
\* and '*'
ValidateObjs ==
    {[NoMidiObj EXCEPT !.midicommand = cmd, !.midiport = port,
                       !.channel = channel, !.note = note,
                       !.velocity = velocity, !.controller = controller,
                       !.value = value] :
       cmd \in {"noteon", "noteoff", "NoteOn", "cc", "pc", "pressure",
                "pitchbend", "sysex", "bogus", UndefStr},
       port \in {"X", UndefStr},
       channel \in {Undef, 0, 16, Star},
       note \in {Undef, 60, 128},
       velocity \in {Undef, 0, 128},
       controller \in {Undef, 7, 128},
       value \in {Undef, 100, 8192, 16384}}

ValidateMIDIObject(midiObj) ==
    /\ lastOp.op = "none"
    /\ lastOp' = [op |-> "validateMIDIObject", midiObj |-> midiObj,
                  res |-> validateMIDIObject(midiObj)]
    /\ UNCHANGED otherThanLastOp

\* the triggers validateTriggerObject is called with
ValidateTriggers ==
    {[NoTrigger EXCEPT !.midicommand = cmd, !.channel = channel,
                       !.note = note, !.velocity = velocity,
                       !.controller = controller, !.value = value,
                       !.actiontype = actiontype, !.url = url,
                       !.outputport = outputport] :
       cmd \in {"noteon", "cc", "pitchbend", "bogus", UndefStr},
       channel \in {Undef, Star, 0, 16},
       note \in {Undef, 60, 128},
       velocity \in {Undef, 200},
       controller \in {Undef, 7},
       value \in {Undef, 200},
       actiontype \in {"http", "midi", "osc", UndefStr},
       url \in {UndefStr, "http://one"},
       outputport \in {UndefStr, "X"}}

ValidateTriggerObject(triggerObj) ==
    /\ lastOp.op = "none"
    /\ lastOp' = [op |-> "validateTriggerObject", triggerObj |-> triggerObj,
                  res |-> validateTriggerObject(triggerObj)]
    /\ UNCHANGED otherThanLastOp

NextValidate ==
    \/ \E paramName \in ParamNames, value \in FieldValues,
          allowWildcard \in BOOLEAN :
          ValidateMIDIValue(paramName, value, allowWildcard)
    \/ \E midiObj \in ValidateObjs : ValidateMIDIObject(midiObj)
    \/ \E triggerObj \in ValidateTriggers : ValidateTriggerObject(triggerObj)

SpecValidate == InitBase /\ [][NextValidate]_vars

\* the inclusive range of the table
RangeOf(paramName) ==
    CASE paramName = "channel" -> 0..15
      [] paramName = "pitchbend" -> 0..16383
      [] OTHER -> 0..127

\* C26: for a field of the range table validateMIDIValue is valid exactly
\* when the value is an integer within the inclusive range, and then returns
\* that integer unchanged, or when allowWildcard is true and the value is
\* '*', and then returns '*'.
C26_ValidExactlyInRange ==
    (lastOp.op = "validateMIDIValue" /\ lastOp.paramName \in LimitNames)
      => LET v == lastOp.value
             whole == v.t = "num" /\ v.v \in RangeOf(lastOp.paramName)
             wild == lastOp.allowWildcard /\ v = Str("*")
         IN /\ lastOp.res.valid <=> (whole \/ wild)
            /\ lastOp.res.valid => lastOp.res.value = v

\* the requirements of validateMIDIObject that the request fails, by field
NoteCommands == {"noteon", "noteoff"}
ChannelCommands ==
    {"noteon", "noteoff", "cc", "pc", "pressure", "pitchbend"}

Failed(o) ==
    LET c == IF o.midicommand = UndefStr THEN ""
             ELSE toLowerCase(o.midicommand)
    IN {f \in {"midicommand", "midiport", "channel", "note", "velocity",
               "controller", "value"} :
          CASE f = "midicommand" -> c \notin VALID_MIDI_COMMANDS
            [] f = "midiport" -> o.midiport \in {UndefStr, ""}
            [] f = "channel" -> c \in ChannelCommands /\ o.channel \notin 0..15
            [] f = "note" -> c \in NoteCommands /\ o.note \notin 0..127
            [] f = "velocity" ->
                 /\ c \in NoteCommands
                 /\ o.velocity # Undef
                 /\ o.velocity \notin 0..127
            [] f = "controller" -> c = "cc" /\ o.controller \notin 0..127
            [] f = "value" ->
                 \/ c \in {"cc", "pc", "pressure"} /\ o.value \notin 0..127
                 \/ c = "pitchbend" /\ o.value \notin 0..16383}

\* C27: validateMIDIObject requires a recognised command, a non-empty port
\* and the fields of the command, each within its range and not '*'; the
\* result is valid exactly when no requirement fails, and the errors hold
\* one entry for every requirement that fails (a cc request without
\* controller reports that controller is required).
C27_ObjectErrorsAggregate ==
    lastOp.op = "validateMIDIObject"
      => LET o == lastOp.midiObj
             r == lastOp.res
         IN /\ r.valid <=> Failed(o) = {}
            /\ {e[1] : e \in r.errors} = Failed(o)
            /\ Cardinality(r.errors) = Cardinality(Failed(o))
            /\ (o.midicommand = "cc" /\ o.controller = Undef)
                 => <<"controller", "required">> \in r.errors

\* a cc request without port, controller and value, with channel 16: four
\* errors are reported together
C27_Witness ==
    /\ lastOp.op = "validateMIDIObject"
    /\ lastOp.midiObj.midicommand = "cc"
    /\ lastOp.midiObj.channel = 16
    /\ lastOp.res.errors = {<<"midiport", "required">>,
                            <<"channel", "invalid">>,
                            <<"controller", "required">>,
                            <<"value", "required">>}

\* the field is absent, or is neither '*' nor within the range
Lacks(v, range) == v = Undef \/ (v # Star /\ v \notin range)

\* C28: validateTriggerObject applies the field requirements of
\* validateMIDIObject, '*' being allowed: a trigger that lacks a field
\* required for its command, or has a velocity, controller or value that is
\* not '*' and is outside its range, is invalid.
C28_TriggerFieldsRequired ==
    lastOp.op = "validateTriggerObject"
      => LET t == lastOp.triggerObj
             c == IF t.midicommand = UndefStr THEN ""
                  ELSE toLowerCase(t.midicommand)
             failing ==
                \/ c \in ChannelCommands /\ Lacks(t.channel, 0..15)
                \/ c \in NoteCommands /\ Lacks(t.note, 0..127)
                \/ c \in NoteCommands /\ t.velocity # Undef
                     /\ Lacks(t.velocity, 0..127)
                \/ c = "cc" /\ Lacks(t.controller, 0..127)
                \/ c = "cc" /\ Lacks(t.value, 0..127)
                \/ c = "pitchbend" /\ Lacks(t.value, 0..16383)
         IN failing => ~lastOp.res.valid

\* C29: validateTriggerObject accepts a trigger only if its actiontype is
\* http or midi, an http trigger has a url and a midi trigger an outputport;
\* each violation adds its own error, and the errors are reported together
\* with those of the command and of the fields.
C29_TriggerActionRequired ==
    lastOp.op = "validateTriggerObject"
      => LET t == lastOp.triggerObj
             r == lastOp.res
             fields == {e[1] : e \in r.errors}
             c == IF t.midicommand = UndefStr THEN ""
                  ELSE toLowerCase(t.midicommand)
         IN /\ r.valid => /\ t.actiontype \in {"http", "midi"}
                          /\ t.actiontype = "http" => t.url # UndefStr
                          /\ t.actiontype = "midi" => t.outputport # UndefStr
            /\ "actiontype" \in fields <=> t.actiontype \notin {"http", "midi"}
            /\ "url" \in fields
                 <=> (t.actiontype = "http" /\ t.url = UndefStr)
            /\ "outputport" \in fields
                 <=> (t.actiontype = "midi" /\ t.outputport = UndefStr)
            /\ "midicommand" \in fields <=> c \notin VALID_MIDI_COMMANDS
            /\ (c \in ChannelCommands /\ t.channel = 16)
                 => "channel" \in fields
            /\ Cardinality(r.errors) = Cardinality(fields)

\* a trigger with an unknown command and an unknown action type, and an
\* http trigger without url on channel 16: two errors each
C29_Witness ==
    /\ lastOp.op = "validateTriggerObject"
    /\ \/ lastOp.res.errors = {<<"midicommand", "invalid">>,
                               <<"actiontype", "invalid">>}
       \/ lastOp.res.errors = {<<"channel", "invalid">>,
                               <<"url", "required">>}

----------------------------------------------------------------------------
(* Specification of the HTTP action: one http trigger is active, with a    *)
(* method and a body of every kind, and note 60 arrives                    *)

THttp(method, jsondata) ==
    [NoTrigger EXCEPT !.id = "trigger-16", !.midicommand = "noteon",
                      !.note = 60, !.actiontype = "http",
                      !.url = "http://sixteen", !.method = method,
                      !.jsondata = jsondata]

\* the five methods, spellings of them, other methods, an empty and an
\* absent method
HttpMethods ==
    allowedMethods \cup {"post", " put ", "trace", "TRACE", "fetch", "",
                         UndefStr}

HttpSets ==
    {<<THttp(method, jsondata)>> :
       method \in HttpMethods, jsondata \in {UndefStr, "", "{}"}}

InitHttp ==
    /\ MIDIRelaysLog = <<>>
    /\ appended = <<>>
    /\ cfgTriggers \in HttpSets
    /\ MIDI_TRIGGERS = cfgTriggers
    /\ disabledInputs = <<>>
    /\ MIDI_INPUTS = <<[name |-> "A", opened |-> TRUE]>>
    /\ MIDI_OUTPUTS = <<"X">>
    /\ jzzEngine = "up"
    /\ openInputs = <<[name |-> "A", h |-> 1]>>
    /\ openOutputs = <<>>
    /\ handles = <<NewHandle("in", "A", TRUE, "scan")>>
    /\ tasks = {}
    /\ sent = <<>>
    /\ virtualInPort = "midi-relay-hub"
    /\ sink = <<>>
    /\ rxHist = <<>>
    /\ execs = <<>>
    /\ httpDone = <<>>
    /\ ncalls = 0
    /\ lastOp = [op |-> "none", res |-> "none"]

NextHttp ==
    \/ \E h \in 1..Len(handles) : Receive(h, <<144, 60, 100>>)
    \/ \E t \in tasks, o \in RelayOutcomes : FetchSettles(t, o)

SpecHttp == InitHttp /\ [][NextHttp]_vars

\* the method a spelling stands for: surrounding blanks and the case of the
\* letters do not count
Spelled(method) ==
    CASE method = "post" -> "POST"
      [] method = " put " -> "PUT"
      [] method = "trace" -> "TRACE"
      [] OTHER -> method

\* C30: the method of the HTTP action is the explicit method of the trigger
\* (its blanks trimmed, in upper case) when that is one of GET, POST, PUT,
\* PATCH, DELETE; for every other method value and for an absent one it is
\* POST when a JSON body is present and GET when it is not.
C30_MethodInferred ==
    [][\A t \in tasks' \ tasks :
         t.kind = "fetch"
           => LET trigger == MIDI_TRIGGERS[t.idx]
                  body == trigger.jsondata \notin {UndefStr, ""}
              IN t.options.method
                   = (IF Spelled(trigger.method)
                           \in {"GET", "POST", "PUT", "PATCH", "DELETE"}
                      THEN Spelled(trigger.method)
                      ELSE IF body THEN "POST" ELSE "GET")]_vars

\* the request of a trigger with the method TRACE and a JSON body is posted
C30_Witness ==
    \E t \in tasks :
       /\ t.kind = "fetch"
       /\ MIDI_TRIGGERS[t.idx].method = "TRACE"
       /\ MIDI_TRIGGERS[t.idx].jsondata = "{}"
       /\ t.options.method = "POST"

----------------------------------------------------------------------------
(* Specification of the outcomes of the HTTP action: http triggers are     *)
(* active, note 60 arrives, and a call ends in every way a fetch can end   *)

OutcomeSets ==
    {<<THttp("GET", UndefStr)>>, <<THttp("POST", "{}")>>,
     <<THttp("trace", "")>>, <<THttp(UndefStr, "{bad")>>}

InitOutcomes ==
    /\ MIDIRelaysLog = <<>>
    /\ appended = <<>>
    /\ cfgTriggers \in OutcomeSets
    /\ MIDI_TRIGGERS = cfgTriggers
    /\ disabledInputs = <<>>
    /\ MIDI_INPUTS = <<[name |-> "A", opened |-> TRUE]>>
    /\ MIDI_OUTPUTS = <<"X">>
    /\ jzzEngine = "up"
    /\ openInputs = <<[name |-> "A", h |-> 1]>>
    /\ openOutputs = <<>>
    /\ handles = <<NewHandle("in", "A", TRUE, "scan")>>
    /\ tasks = {}
    /\ sent = <<>>
    /\ virtualInPort = "midi-relay-hub"
    /\ sink = <<>>
    /\ rxHist = <<>>
    /\ execs = <<>>
    /\ httpDone = <<>>
    /\ ncalls = 0
    /\ lastOp = [op |-> "none", res |-> "none"]

NextOutcomes ==
    \/ \E h \in 1..Len(handles) : Receive(h, <<144, 60, 100>>)
    \/ \E t \in tasks, o \in FetchOutcomes : FetchSettles(t, o)

SpecOutcomes == InitOutcomes /\ [][NextOutcomes]_vars

\* the requests made for the execution of trigger i on the n-th event: those
\* in flight and those that have ended
InFlight(n, i) ==
    {t \in tasks : t.kind = "fetch" /\ t.ev = n /\ t.idx = i}
Ended(n, i) ==
    {k \in 1..Len(httpDone) : httpDone[k].ev = n /\ httpDone[k].idx = i}

\* the entries the HTTP actions have logged
ActionEntries(direction) ==
    {k \in 1..Len(appended) :
        appended[k].direction = direction /\ appended[k].port \in HttpPorts}

\* the executions that made no request: the declared body does not parse
Unsent ==
    {k \in 1..Len(execs) : ~BodyOk(MIDI_TRIGGERS[execs[k].idx])}

Is2xx(outcome) == outcome.kind = "response" /\ outcome.status \in 200..299

\* C31: each execution of an HTTP trigger action makes at most one network
\* request, with no retry after a non-2xx response, a timeout or a
\* connection error, and appends exactly one log entry: TRIGGER when the
\* response is 2xx, APP-ERR in every other outcome.
C31_OneRequestOneEntry ==
    /\ [](/\ \A k \in 1..Len(execs) :
               Cardinality(InFlight(execs[k].ev, execs[k].idx))
                 + Cardinality(Ended(execs[k].ev, execs[k].idx)) <= 1
          /\ Cardinality(ActionEntries("TRIGGER"))
               = Cardinality({k \in 1..Len(httpDone) :
                                 Is2xx(httpDone[k].outcome)})
          /\ Cardinality(ActionEntries("APP-ERR"))
               = Cardinality({k \in 1..Len(httpDone) :
                                 ~Is2xx(httpDone[k].outcome)})
                 + Cardinality(Unsent))
    /\ [][Len(httpDone') = Len(httpDone) + 1
           => /\ tasks' \subseteq tasks
              /\ Len(appended') = Len(appended) + 1
              /\ appended'[Len(appended')].direction
                   = (IF Is2xx(httpDone'[Len(httpDone')].outcome)
                      THEN "TRIGGER" ELSE "APP-ERR")]_vars

\* two calls have ended, one in a response 500 and one in a timeout, and the
\* log holds their two APP-ERR entries after the two RX entries
C31_Witness ==
    /\ Len(httpDone) = 2
    /\ httpDone[1].outcome.status = 500
    /\ httpDone[2].outcome.name = "AbortError"
    /\ tasks = {}
    /\ Len(appended) = 4
    /\ Cardinality(ActionEntries("APP-ERR")) = 2

----------------------------------------------------------------------------
(* The port lists, checked under SpecPorts *)

\* C32: after a Scan, two Scans that overlap included, the list of inputs
\* and the list of outputs each hold at most one entry for a port name.
C32_ListsHaveNoDuplicates ==
    /\ \A i, j \in 1..Len(MIDI_INPUTS) :
          i # j => MIDI_INPUTS[i].name # MIDI_INPUTS[j].name
    /\ \A i, j \in 1..Len(MIDI_OUTPUTS) :
          i # j => MIDI_OUTPUTS[i] # MIDI_OUTPUTS[j]

\* C33: in every state with no open or close in flight, the opened flag of
\* each listed input tells whether a handle for its name is tracked in the
\* map of open inputs, after any sequence of scans, opens, closes, toggles
\* and shutdowns.
C33_OpenedFlagIsTracked ==
    tasks = {} =>
        \A k \in 1..Len(MIDI_INPUTS) :
            MIDI_INPUTS[k].opened <=> MapHas(openInputs, MIDI_INPUTS[k].name)

====
